---- MODULE Spec2Model ----
(***************************************************************************)
(* TorcReads storage layer (src/utilities/torcreads/src/lib/storage.ts,    *)
(* lines 1-367) together with the Apps Script it talks to                  *)
(* (GOOGLE_SHEETS_SETUP.md, the script of section 2).                      *)
(*                                                                         *)
(* State: the spreadsheet (one row sequence per tab), the browser's        *)
(* localStorage (the Local Mirror), and the record of the last completed   *)
(* storage call.  Every exported function of storage.ts is one action that *)
(* runs the whole handler: the gateway call(s), the script's handler on    *)
(* the sheet when the request is served, and the mirror write.             *)
(***************************************************************************)
EXTENDS Integers, Sequences, FiniteSets, TLC

VARIABLES
    SCRIPT_URL,     \* import.meta.env.VITE_GOOGLE_SCRIPT_URL: "" when not set
    sheets,         \* the spreadsheet: tab name -> rows below the header
    localStorage,   \* the Local Mirror: one entry per STORAGE_KEYS key
    last,           \* the last completed storage call and what it returned
    uuidCount,      \* number of Utilities.getUuid() values handed out
    randCount,      \* number of Math.random() identifiers handed out
    ADMIN_EMAIL,    \* import.meta.env.VITE_ADMIN_EMAIL: "" when not set
    scope,          \* the collection this session works on
    trail,          \* the calls since the last read of the voting options
    pending,        \* the calls that were started, in the order they were started
    page            \* the React state of the page that is open

vars == <<SCRIPT_URL, ADMIN_EMAIL, sheets, localStorage, last, uuidCount, randCount, scope,
          trail, pending, page>>

-----------------------------------------------------------------------------
(* Bounds of the model.                                                    *)

\* at most this many create calls (saveBook, saveStudyGuide, saveVotingOption)
MaxCreates == 2
\* saveProfile appends a row only while the users tab holds fewer rows than this
MaxUsers == 2
\* a vote call is taken only while the counts it touches are below this
MaxVotes == 2
\* a genre vote is taken only while the history tab holds fewer records than this
MaxHistory == 2
\* longest row list the spreadsheet or the mirror is given to start from when
\* the reads are checked on arbitrary rows
MaxRows == 2

-----------------------------------------------------------------------------
(* JavaScript values, as far as the adapters coerce them.                  *)

JNum(n)  == [t |-> "num",   n |-> n, s |-> ""]
JStr(str) == [t |-> "str",   n |-> 0, s |-> str]
JBool(b) == [t |-> "bool",  n |-> IF b THEN 1 ELSE 0, s |-> ""]
JUndef   == [t |-> "undef", n |-> 0, s |-> ""]
JNaN     == [t |-> "nan",   n |-> 0, s |-> ""]
JNull    == [t |-> "null",  n |-> 0, s |-> ""]
\* an identifier string: the k-th value of Utilities.getUuid() (src = "uuid")
\* or of Math.random().toString(36).substr(2, 9) (src = "rand")
JId(src, k) == [t |-> "id", n |-> k, s |-> src]

\* ToBoolean: undefined, NaN, 0, "" and false are falsy
Truthy(v) ==
    CASE v.t = "undef" -> FALSE
      [] v.t = "null"  -> FALSE
      [] v.t = "nan"   -> FALSE
      [] v.t = "id"    -> TRUE
      [] v.t = "num"   -> v.n # 0
      [] v.t = "str"   -> v.s # ""
      [] v.t = "bool"  -> v.n = 1

\* a || b
Or(a, b) == IF Truthy(a) THEN a ELSE b

\* the decimal literals the model's strings can spell
StringToNumber(str) ==
    CASE str = ""   -> JNum(0)
      [] str = "0"  -> JNum(0)
      [] str = "1"  -> JNum(1)
      [] str = "2"  -> JNum(2)
      [] str = "3"  -> JNum(3)
      [] str = "-1" -> JNum(-1)
      [] OTHER      -> JNaN

\* Number(v)
Number(v) ==
    CASE v.t = "num"   -> v
      [] v.t = "nan"   -> JNaN
      [] v.t = "undef" -> JNaN
      [] v.t = "null"  -> JNum(0)
      [] v.t = "id"    -> JNaN
      [] v.t = "bool"  -> JNum(v.n)
      [] v.t = "str"   -> StringToNumber(v.s)

\* parseInt(v) || 0, as the script reads a votes cell
ParseIntOr0(v) ==
    LET p == CASE v.t = "num" -> v
               [] v.t = "str" -> IF v.s = "" THEN JNaN ELSE StringToNumber(v.s)
               [] OTHER       -> JNaN
    IN  Or(p, JNum(0)).n

\* the abstract clock value of new Date()
Now == "now"

\* Array.prototype.findIndex, 1-based; 0 where JavaScript answers -1
FindIndex(seq, Test(_)) ==
    IF \E i \in 1..Len(seq) : Test(seq[i])
    THEN CHOOSE i \in 1..Len(seq) :
            Test(seq[i]) /\ \A j \in 1..(i - 1) : ~Test(seq[j])
    ELSE 0

\* String.prototype.toLowerCase on the addresses of the model
ToLowerCase(str) ==
    CASE str = "Ann@Torc.dev"  -> "ann@torc.dev"
      [] str = "ANN@TORC.DEV"  -> "ann@torc.dev"
      [] str = "Boss@Torc.dev" -> "boss@torc.dev"
      [] OTHER -> str

\* the sequence without its i-th element
RemoveAt(seq, i) == SubSeq(seq, 1, i - 1) \o SubSeq(seq, i + 1, Len(seq))

-----------------------------------------------------------------------------
(* The Apps Script (GOOGLE_SHEETS_SETUP.md).  A tab is the sequence of its *)
(* rows below the header; a row is a record keyed by the header names.     *)
(* Of the pass-through text columns only those the claims name are kept.   *)

Headers(sheetName) ==
    CASE sheetName = "books" ->
            {"id", "title", "author", "rating", "added_by", "is_member", "created_at"}
      [] sheetName = "study_guides" ->
            {"id", "title", "book_title", "file_size", "uploaded_at"}
      [] sheetName = "voting_options" ->
            {"id", "book_title", "author", "suggested_by", "is_member", "votes",
             "created_at"}
      [] sheetName = "genre_votes" -> {"id", "name", "votes"}
      [] sheetName = "user_genre_history" -> {"email", "genre_name", "voted_at"}
      [] sheetName = "users" -> {"email", "name", "is_admin", "last_active"}

\* what the script answers: createJsonResponse of a list or of a status object
ListBody(rows)     == [kind |-> "list",   rows |-> rows, status |-> "",        message |-> ""]
SuccessBody        == [kind |-> "object", rows |-> <<>>, status |-> "success", message |-> ""]
ErrorBody(message) == [kind |-> "object", rows |-> <<>>, status |-> "error",   message |-> message]

Answer(body, ss) == [body |-> body, sheets |-> ss]

getSheetData(ss, sheetName) == Answer(ListBody(ss[sheetName]), ss)

getUserHistory(ss, email) ==
    LET rows == SelectSeq(ss.user_genre_history, LAMBDA r : r.email = email)
    IN  Answer(ListBody([i \in 1..Len(rows) |-> rows[i].genre_name]), ss)

appendToSheet(ss, sheetName, rowData, uuid) ==
    LET newRow == [h \in Headers(sheetName) |->
                     IF h = "id" THEN uuid
                     ELSE IF h \in {"created_at", "uploaded_at", "last_active", "voted_at"}
                          THEN JStr(Now)
                     ELSE IF h \in DOMAIN rowData THEN rowData[h] ELSE JStr("")]
    IN  Answer(SuccessBody, [ss EXCEPT ![sheetName] = Append(@, newRow)])

\* the cell set to 1 where the handler adds 1 to it
incrementVote_setOne(ss, sheetName, id) ==
    LET data == ss[sheetName]
        i    == FindIndex(data, LAMBDA r : r.id = id)
    IN  IF i # 0
        THEN Answer(SuccessBody, [ss EXCEPT ![sheetName][i].votes = JNum(1)])
        ELSE Answer(ErrorBody("ID not found"), ss)

incrementVote(ss, sheetName, id) ==
    LET data == ss[sheetName]
        i    == FindIndex(data, LAMBDA r : r.id = id)
    IN  IF i # 0
        THEN Answer(SuccessBody,
                    [ss EXCEPT ![sheetName][i].votes = JNum(ParseIntOr0(data[i].votes) + 1)])
        ELSE Answer(ErrorBody("ID not found"), ss)

\* the tally updated and no history record written
voteGenre_tallyOnly(ss, genreName, email) ==
    LET data   == ss.genre_votes
        i      == FindIndex(data, LAMBDA r : r.name = genreName)
        tally  == IF i # 0
                  THEN [data EXCEPT ![i].votes = JNum(ParseIntOr0(data[i].votes) + 1)]
                  ELSE Append(data, [id |-> genreName, name |-> genreName, votes |-> JNum(1)])
    IN  Answer(SuccessBody, [ss EXCEPT !.genre_votes = tally])

\* a row appended for every vote, whether or not the name has one
voteGenre_alwaysAppend(ss, genreName, email) ==
    LET record == [email |-> email, genre_name |-> genreName, voted_at |-> JStr(Now)]
    IN  Answer(SuccessBody,
               [ss EXCEPT !.genre_votes =
                             Append(@, [id |-> genreName, name |-> genreName,
                                        votes |-> JNum(1)]),
                          !.user_genre_history = Append(@, record)])

voteGenre(ss, genreName, email) ==
    LET data   == ss.genre_votes
        i      == FindIndex(data, LAMBDA r : r.name = genreName)
        tally  == IF i # 0
                  THEN [data EXCEPT ![i].votes = JNum(ParseIntOr0(data[i].votes) + 1)]
                  ELSE Append(data, [id |-> genreName, name |-> genreName, votes |-> JNum(1)])
        record == [email |-> email, genre_name |-> genreName, voted_at |-> JStr(Now)]
        hist   == IF Truthy(email) THEN Append(ss.user_genre_history, record)
                  ELSE ss.user_genre_history
    IN  Answer(SuccessBody,
               [ss EXCEPT !.genre_votes = tally, !.user_genre_history = hist])

\* the tally set to 0 and the history tab left as it is
scriptResetGenreVotes_tallyOnly(ss) ==
    Answer(SuccessBody,
           [ss EXCEPT !.genre_votes = [i \in 1..Len(@) |-> [@[i] EXCEPT !.votes = JNum(0)]]])

scriptResetGenreVotes(ss) ==
    Answer(SuccessBody,
           [ss EXCEPT !.genre_votes = [i \in 1..Len(@) |-> [@[i] EXCEPT !.votes = JNum(0)]],
                      !.user_genre_history = <<>>])

\* success answered whether or not a row has the id
deleteRow_noError(ss, sheetName, id) ==
    LET i == FindIndex(ss[sheetName], LAMBDA r : r.id = id)
    IN  IF i # 0
        THEN Answer(SuccessBody, [ss EXCEPT ![sheetName] = RemoveAt(@, i)])
        ELSE Answer(SuccessBody, ss)

deleteRow(ss, sheetName, id) ==
    LET i == FindIndex(ss[sheetName], LAMBDA r : r.id = id)
    IN  IF i # 0
        THEN Answer(SuccessBody, [ss EXCEPT ![sheetName] = RemoveAt(@, i)])
        ELSE Answer(ErrorBody("ID not found"), ss)

clearAllExceptHeader(ss, sheetName) ==
    Answer(SuccessBody, [ss EXCEPT ![sheetName] = <<>>])

\* the emails of the rows whose is_admin cell is true or 'TRUE'
getAdmins(ss) ==
    LET rows == SelectSeq(ss.users,
                          LAMBDA r : r.is_admin = JBool(TRUE) \/ r.is_admin = JStr("TRUE"))
    IN  Answer(ListBody([i \in 1..Len(rows) |-> [email |-> rows[i].email]]), ss)

\* a row appended whether or not the email has one
saveProfile_alwaysAppend(ss, rowData) ==
    Answer(SuccessBody,
           [ss EXCEPT !.users =
               Append(@, [email |-> rowData.email, name |-> rowData.name,
                          is_admin |-> JBool(FALSE), last_active |-> JStr(Now)])])

\* the first row of the email gets the name and the time; without one, a row
\* with is_admin = false is appended
saveProfile(ss, rowData) ==
    LET i == FindIndex(ss.users, LAMBDA r : r.email = rowData.email)
    IN  IF i # 0
        THEN Answer(SuccessBody,
                    [ss EXCEPT !.users[i].name = rowData.name,
                               !.users[i].last_active = JStr(Now)])
        ELSE Answer(SuccessBody,
                    [ss EXCEPT !.users =
                        Append(@, [email |-> rowData.email, name |-> rowData.name,
                                   is_admin |-> JBool(FALSE), last_active |-> JStr(Now)])])

\* doGet's dispatch on payload.action; uuid is the next Utilities.getUuid()
doGet(action, payload, ss, uuid) ==
    CASE action = "getBooks"        -> getSheetData(ss, "books")
      [] action = "getGuides"       -> getSheetData(ss, "study_guides")
      [] action = "getVotes"        -> getSheetData(ss, "voting_options")
      [] action = "getGenreVotes"   -> getSheetData(ss, "genre_votes")
      [] action = "getAdmins"       -> getAdmins(ss)
      [] action = "getUserHistory"  -> getUserHistory(ss, payload.email)
      [] action = "saveBook"        -> appendToSheet(ss, "books", payload.row, uuid)
      [] action = "saveGuide"       -> appendToSheet(ss, "study_guides", payload.row, uuid)
      [] action = "saveVote"        -> appendToSheet(ss, "voting_options", payload.row, uuid)
      [] action = "vote"            -> incrementVote(ss, "voting_options", payload.id)
      [] action = "deleteBook"      -> deleteRow(ss, "books", payload.id)
      [] action = "deleteGuide"     -> deleteRow(ss, "study_guides", payload.id)
      [] action = "clearVotes"      -> clearAllExceptHeader(ss, "voting_options")
      [] action = "voteGenre"       -> voteGenre(ss, payload.name, payload.email)
      [] action = "resetGenreVotes" -> scriptResetGenreVotes(ss)
      [] action = "saveProfile"     -> saveProfile(ss, payload.row)
      [] OTHER -> Answer(ErrorBody("Invalid Action"), ss)

-----------------------------------------------------------------------------
(* storage.ts: STORAGE_KEYS, DEFAULT_GENRES.                               *)

DEFAULT_GENRES ==
    << "Action/Adventure", "Historical Fiction", "Drama / Literary Fiction",
       "Romance", "Sci-Fi", "Fantasy", "Mystery / Thriller", "Horror" >>


STORAGE_KEYS ==
    [BOOKS |-> "bookclub_books", GUIDES |-> "bookclub_guides", VOTES |-> "bookclub_votes",
     GENRE_VOTES |-> "bookclub_genre_votes", CURRENT_USER |-> "bookclub_user"]

\* localStorage.getItem(key) === null
Absent == [fmt |-> "absent"]

\* JSON.stringify of one entry: NaN is written as null, an undefined field is
\* dropped (and reads back as undefined)
Stringify(entry) == [f \in DOMAIN entry |-> IF entry[f].t = "nan" THEN JNull ELSE entry[f]]

-----------------------------------------------------------------------------
(* callSheetsAPI (storage.ts 55-92).  outcome is what happens to the one   *)
(* fetch: "network" (fetch rejects), "http" (a non-2xx status),            *)
(* "exception" (doGet's catch answers an error body), "ok" (the handler of *)
(* the action runs on the sheet and answers).                              *)

Outcomes == {"network", "http", "exception", "ok"}

NullResult == [kind |-> "null", rows |-> <<>>, status |-> "", message |-> ""]
NoData == [none |-> TRUE]

\* the body a taken as the result whatever its status
Undecoded(base, a) ==
    [base EXCEPT !.answer = IF a.body.kind = "list" THEN "list" ELSE a.body.status,
                 !.threw = FALSE, !.result = a.body, !.sheets = a.sheets]

\* a try block without the test of result.status: the error body is the result
tryFetch_unchecked(action, data, outcome, ss, uuid) ==
    LET base == [action |-> action, outcome |-> outcome, answer |-> "none", threw |-> TRUE,
                 message |-> "", result |-> NullResult, sheets |-> ss, logs |-> {}]
    IN  CASE outcome = "network" -> [base EXCEPT !.message = "Failed to fetch"]
          [] outcome = "http" ->
                [base EXCEPT !.message = "HTTP error", !.logs = {"HTTP Error"}]
          [] outcome = "exception" ->
                [base EXCEPT !.answer = "error", !.threw = FALSE,
                             !.result = ErrorBody("Exception")]
          [] outcome = "ok" -> Undecoded(base, doGet(action, data, ss, uuid))

\* lines 81-87: the decoded body a, tested for an error status
Decoded(base, a) ==
    IF a.body.status = "error"
    THEN [base EXCEPT !.answer = "error", !.message = a.body.message,
                      !.sheets = a.sheets, !.logs = {"Script Error"}]
    ELSE [base EXCEPT !.answer = IF a.body.kind = "list" THEN "list" ELSE "success",
                      !.threw = FALSE, !.result = a.body, !.sheets = a.sheets]

\* the try block, lines 61-87; answer is the kind of body the script sent
tryFetch(action, data, outcome, ss, uuid) ==
    LET base == [action |-> action, outcome |-> outcome, answer |-> "none", threw |-> TRUE,
                 message |-> "", result |-> NullResult, sheets |-> ss, logs |-> {}]
    IN  CASE outcome = "network" -> [base EXCEPT !.message = "Failed to fetch"]
          [] outcome = "http" ->
                [base EXCEPT !.message = "HTTP error", !.logs = {"HTTP Error"}]
          [] outcome = "exception" ->
                [base EXCEPT !.answer = "error", !.message = "Exception",
                             !.logs = {"Script Error"}]
          [] outcome = "ok" -> Decoded(base, doGet(action, data, ss, uuid))

\* no early return: the request is built from the missing URL and fails
UrlNotSet_fetch(action, ss) ==
    [action |-> action, outcome |-> "network", answer |-> "none", threw |-> FALSE,
     message |-> "Invalid URL", result |-> NullResult, sheets |-> ss,
     logs |-> {"URL not set", "Error during"}]

\* lines 56-59
UrlNotSet(action, ss) ==
    [action |-> action, outcome |-> "unset", answer |-> "none", threw |-> FALSE,
     message |-> "", result |-> NullResult, sheets |-> ss, logs |-> {"URL not set"}]

\* a catch block that hands the script's error on to the caller
Caught_rethrow(t) ==
    IF t.threw /\ t.answer # "error"
    THEN [t EXCEPT !.threw = FALSE, !.logs = @ \cup {"Error during"}]
    ELSE t

\* the catch block, lines 88-91: log, and null for whatever the try block threw
Caught(t) ==
    IF t.threw
    THEN [t EXCEPT !.threw = FALSE, !.logs = @ \cup {"Error during"}]
    ELSE t

\* a gateway whose catch block hands the script's error on to the caller
callSheetsAPI_rethrow(action, data, outcome, ss, uuid) ==
    IF SCRIPT_URL = ""
    THEN UrlNotSet(action, ss)
    ELSE Caught_rethrow(tryFetch(action, data, outcome, ss, uuid))

callSheetsAPI(action, data, outcome, ss, uuid) ==
    IF SCRIPT_URL = ""
    THEN UrlNotSet(action, ss)
    ELSE Caught(tryFetch(action, data, outcome, ss, uuid))

\* a test that also takes the empty array for "no data"
TruthyResult_nonEmpty(result) ==
    result.kind # "null" /\ ~(result.kind = "list" /\ result.rows = <<>>)

\* if (remoteData): null is falsy, every array and object is truthy
TruthyResult(result) == result.kind # "null"

\* Array.isArray(remoteData)
IsArray(result) == result.kind = "list"

(* Local Fallback Helpers (storage.ts 95-100) *)

\* a fallback that never finds stored text
getLocal_empty(ls, key) == <<>>

getLocal(ls, key) == IF ls[key] = Absent THEN <<>> ELSE ls[key].items

setLocal(ls, key, data) ==
    [ls EXCEPT ![key] = [fmt |-> "array",
                         items |-> [i \in 1..Len(data) |-> Stringify(data[i])]]]

\* what the caller and the console see of one gateway call
Summary(c) ==
    [action |-> c.action, outcome |-> c.outcome, answer |-> c.answer, threw |-> c.threw,
     kind |-> c.result.kind, message |-> c.message, logs |-> c.logs]

\* what an adapter hands back: its return value, or the failure it raises, the
\* sheet and the mirror as it leaves them, and the gateway calls it made
Return(ret, ss, ls, calls) ==
    [raised |-> FALSE, message |-> "", ret |-> ret, sheets |-> ss, store |-> ls,
     calls |-> calls]
Raise(message, ss, ls, calls) ==
    [raised |-> TRUE, message |-> message, ret |-> <<>>, sheets |-> ss, store |-> ls,
     calls |-> calls]

-----------------------------------------------------------------------------
(* The adapters, as functions of the gateway outcome(s), the sheet and the *)
(* mirror they start from.                                                 *)

\* the flag taken for its truthiness
IsMember_truthy(v) == JBool(Truthy(v))

\* b.is_member === 'TRUE' || b.is_member === true
IsMember(v) == JBool(v = JStr("TRUE") \/ v = JBool(TRUE))

(* Books (storage.ts 103-146) *)

BookOfRow(b) ==
    [id |-> b.id, title |-> b.title, author |-> b.author, rating |-> Number(b.rating),
     addedBy |-> b.added_by, isMember |-> IsMember(b.is_member), createdAt |-> b.created_at]

getBooks(outcome, ss, ls) ==
    LET remoteData == callSheetsAPI("getBooks", NoData, outcome, ss, JUndef)
    IN  IF remoteData.threw
        THEN Raise(remoteData.message, remoteData.sheets, ls, <<Summary(remoteData)>>)
        ELSE IF TruthyResult(remoteData.result)
        THEN Return([i \in 1..Len(remoteData.result.rows) |->
                        BookOfRow(remoteData.result.rows[i])],
                    remoteData.sheets, ls, <<Summary(remoteData)>>)
        ELSE Return(getLocal(ls, STORAGE_KEYS.BOOKS), remoteData.sheets, ls, <<Summary(remoteData)>>)

saveBook(book, outcome, ss, ls, uuid, rand) ==
    LET bookData == [title |-> book.title, author |-> book.author,
                     rating |-> Or(book.rating, JNum(0)), added_by |-> book.addedBy,
                     is_member |-> book.isMember]
        remoteResult == callSheetsAPI("saveBook", [row |-> bookData], outcome, ss, uuid)
        books == <<[book EXCEPT !.id = rand, !.createdAt = JStr(Now)]>>
                    \o getLocal(ls, STORAGE_KEYS.BOOKS)
    IN  IF remoteResult.threw
        THEN Raise(remoteResult.message, remoteResult.sheets, ls, <<Summary(remoteResult)>>)
        ELSE Return(<<>>, remoteResult.sheets, setLocal(ls, STORAGE_KEYS.BOOKS, books),
                    <<Summary(remoteResult)>>)

\* the mirror filtered only when the remote call gave a result
deleteBook_whenServed(id, outcome, ss, ls) ==
    LET c == callSheetsAPI("deleteBook", [id |-> id], outcome, ss, JUndef)
        books == SelectSeq(getLocal(ls, STORAGE_KEYS.BOOKS), LAMBDA b : b.id # id)
    IN  IF c.result.kind = "null"
        THEN Return(<<>>, c.sheets, ls, <<Summary(c)>>)
        ELSE Return(<<>>, c.sheets, setLocal(ls, STORAGE_KEYS.BOOKS, books), <<Summary(c)>>)

deleteBook(id, outcome, ss, ls) ==
    LET c == callSheetsAPI("deleteBook", [id |-> id], outcome, ss, JUndef)
        books == SelectSeq(getLocal(ls, STORAGE_KEYS.BOOKS), LAMBDA b : b.id # id)
    IN  IF c.threw
        THEN Raise(c.message, c.sheets, ls, <<Summary(c)>>)
        ELSE Return(<<>>, c.sheets, setLocal(ls, STORAGE_KEYS.BOOKS, books), <<Summary(c)>>)

(* Study Guides (storage.ts 148-197) *)

deleteStudyGuide(id, outcome, ss, ls) ==
    LET c == callSheetsAPI("deleteGuide", [id |-> id], outcome, ss, JUndef)
        guides == SelectSeq(getLocal(ls, STORAGE_KEYS.GUIDES), LAMBDA g : g.id # id)
    IN  IF c.threw
        THEN Raise(c.message, c.sheets, ls, <<Summary(c)>>)
        ELSE Return(<<>>, c.sheets, setLocal(ls, STORAGE_KEYS.GUIDES, guides), <<Summary(c)>>)

GuideOfRow(g) ==
    [id |-> g.id, title |-> g.title, bookTitle |-> g.book_title,
     fileSize |-> Number(g.file_size), uploadedAt |-> g.uploaded_at]

getStudyGuides(outcome, ss, ls) ==
    LET remoteData == callSheetsAPI("getGuides", NoData, outcome, ss, JUndef)
    IN  IF remoteData.threw
        THEN Raise(remoteData.message, remoteData.sheets, ls, <<Summary(remoteData)>>)
        ELSE IF TruthyResult(remoteData.result)
        THEN Return([i \in 1..Len(remoteData.result.rows) |->
                        GuideOfRow(remoteData.result.rows[i])],
                    remoteData.sheets, ls, <<Summary(remoteData)>>)
        ELSE Return(getLocal(ls, STORAGE_KEYS.GUIDES), remoteData.sheets, ls, <<Summary(remoteData)>>)

saveStudyGuide(guide, outcome, ss, ls, uuid, rand) ==
    LET guideData == [title |-> guide.title, book_title |-> guide.bookTitle,
                      file_size |-> Or(guide.fileSize, JNum(0))]
        c == callSheetsAPI("saveGuide", [row |-> guideData], outcome, ss, uuid)
        guides == <<[guide EXCEPT !.id = rand, !.uploadedAt = JStr(Now)]>>
                     \o getLocal(ls, STORAGE_KEYS.GUIDES)
    IN  IF c.threw
        THEN Raise(c.message, c.sheets, ls, <<Summary(c)>>)
        ELSE Return(<<>>, c.sheets, setLocal(ls, STORAGE_KEYS.GUIDES, guides), <<Summary(c)>>)

(* Voting (storage.ts 200-246) *)

\* the row read with the field names of the entity
OptionOfRow_camel(o) ==
    [id |-> o.id, bookTitle |-> o.book_title, author |-> o.author,
     suggestedBy |-> JUndef, isMember |-> IsMember(o.is_member),
     votes |-> Number(o.votes), createdAt |-> o.created_at]

OptionOfRow(o) ==
    [id |-> o.id, bookTitle |-> o.book_title, author |-> o.author,
     suggestedBy |-> o.suggested_by, isMember |-> IsMember(o.is_member),
     votes |-> Number(o.votes), createdAt |-> o.created_at]

\* a read that writes what the remote returned over the mirror
getVotingOptions_sync(outcome, ss, ls) ==
    LET remoteData == callSheetsAPI("getVotes", NoData, outcome, ss, JUndef)
        rows == [i \in 1..Len(remoteData.result.rows) |->
                    OptionOfRow(remoteData.result.rows[i])]
    IN  IF TruthyResult(remoteData.result)
        THEN Return(rows, remoteData.sheets, setLocal(ls, STORAGE_KEYS.VOTES, rows),
                    <<Summary(remoteData)>>)
        ELSE Return(getLocal(ls, STORAGE_KEYS.VOTES), remoteData.sheets, ls, <<Summary(remoteData)>>)

getVotingOptions(outcome, ss, ls) ==
    LET remoteData == callSheetsAPI("getVotes", NoData, outcome, ss, JUndef)
    IN  IF remoteData.threw
        THEN Raise(remoteData.message, remoteData.sheets, ls, <<Summary(remoteData)>>)
        ELSE IF TruthyResult(remoteData.result)
        THEN Return([i \in 1..Len(remoteData.result.rows) |->
                        OptionOfRow(remoteData.result.rows[i])],
                    remoteData.sheets, ls, <<Summary(remoteData)>>)
        ELSE Return(getLocal(ls, STORAGE_KEYS.VOTES), remoteData.sheets, ls, <<Summary(remoteData)>>)

\* unshift where the code pushes
saveVotingOption_unshift(option, outcome, ss, ls, uuid, rand) ==
    LET optionData == [book_title |-> option.bookTitle, author |-> option.author,
                       suggested_by |-> option.suggestedBy, is_member |-> option.isMember,
                       votes |-> Or(option.votes, JNum(0))]
        c == callSheetsAPI("saveVote", [row |-> optionData], outcome, ss, uuid)
        votes == <<[option EXCEPT !.id = rand, !.createdAt = JStr(Now)]>>
                    \o getLocal(ls, STORAGE_KEYS.VOTES)
    IN  Return(<<>>, c.sheets, setLocal(ls, STORAGE_KEYS.VOTES, votes), <<Summary(c)>>)

saveVotingOption(option, outcome, ss, ls, uuid, rand) ==
    LET optionData == [book_title |-> option.bookTitle, author |-> option.author,
                       suggested_by |-> option.suggestedBy, is_member |-> option.isMember,
                       votes |-> Or(option.votes, JNum(0))]
        c == callSheetsAPI("saveVote", [row |-> optionData], outcome, ss, uuid)
        votes == Append(getLocal(ls, STORAGE_KEYS.VOTES),
                        [option EXCEPT !.id = rand, !.createdAt = JStr(Now)])
    IN  IF c.threw
        THEN Raise(c.message, c.sheets, ls, <<Summary(c)>>)
        ELSE Return(<<>>, c.sheets, setLocal(ls, STORAGE_KEYS.VOTES, votes), <<Summary(c)>>)

\* a + 1 on numbers
PlusOne(v) == IF v.t = "num" THEN JNum(v.n + 1) ELSE JNaN

\* an entry pushed when none has the id, as voteForGenre does for a genre
voteForOption_push(id, outcome, ss, ls) ==
    LET c == callSheetsAPI("vote", [id |-> id], outcome, ss, JUndef)
        votes == getLocal(ls, STORAGE_KEYS.VOTES)
        index == FindIndex(votes, LAMBDA v : v.id = id)
        entry == [id |-> id, bookTitle |-> JUndef, author |-> JUndef, suggestedBy |-> JUndef,
                  isMember |-> JUndef, votes |-> JNum(1), createdAt |-> JUndef]
    IN  IF index # 0
        THEN Return(<<>>, c.sheets,
                    setLocal(ls, STORAGE_KEYS.VOTES,
                             [votes EXCEPT ![index].votes = PlusOne(Or(@, JNum(0)))]),
                    <<Summary(c)>>)
        ELSE Return(<<>>, c.sheets, setLocal(ls, STORAGE_KEYS.VOTES, Append(votes, entry)),
                    <<Summary(c)>>)

voteForOption(id, outcome, ss, ls) ==
    LET c == callSheetsAPI("vote", [id |-> id], outcome, ss, JUndef)
        votes == getLocal(ls, STORAGE_KEYS.VOTES)
        index == FindIndex(votes, LAMBDA v : v.id = id)
    IN  IF c.threw
        THEN Raise(c.message, c.sheets, ls, <<Summary(c)>>)
        ELSE IF index # 0
        THEN Return(<<>>, c.sheets,
                    setLocal(ls, STORAGE_KEYS.VOTES,
                             [votes EXCEPT ![index].votes = PlusOne(Or(@, JNum(0)))]),
                    <<Summary(c)>>)
        ELSE Return(<<>>, c.sheets, ls, <<Summary(c)>>)

clearVotingOptions(outcome, ss, ls) ==
    LET c == callSheetsAPI("clearVotes", NoData, outcome, ss, JUndef)
    IN  IF c.threw
        THEN Raise(c.message, c.sheets, ls, <<Summary(c)>>)
        ELSE Return(<<>>, c.sheets, setLocal(ls, STORAGE_KEYS.VOTES, <<>>), <<Summary(c)>>)

(* User (storage.ts 325-340) *)

\* the parsed text returned whatever it is
getCurrentUser_noLegacy(ls) ==
    LET data == ls[STORAGE_KEYS.CURRENT_USER]
    IN  CASE data.fmt \in {"absent", "empty"} ->
                 [name |-> JStr("Book Club Member"), email |-> JStr("")]
          [] data.fmt = "object" -> [name |-> data.name, email |-> data.email]
          [] data.fmt = "string" -> [name |-> JUndef, email |-> JUndef]
          [] data.fmt = "raw" -> [name |-> data.name, email |-> JStr("")]

getCurrentUser(ls) ==
    LET data == ls[STORAGE_KEYS.CURRENT_USER]
    IN  CASE data.fmt \in {"absent", "empty"} ->
                 \* getItem gives null, or the empty text: !data
                 [name |-> JStr("Book Club Member"), email |-> JStr("")]
          [] data.fmt = "object" -> [name |-> data.name, email |-> data.email]
          \* JSON text of a string, and text that is no JSON at all
          [] data.fmt \in {"string", "raw"} -> [name |-> data.name, email |-> JStr("")]

\* the record written under another key
setCurrentUser_otherKey(ls, profile) ==
    [ls EXCEPT ![STORAGE_KEYS.GENRE_VOTES] =
        [fmt |-> "object", name |-> profile.name, email |-> profile.email]]

\* the JSON text of the profile
setCurrentUser(ls, profile) ==
    [ls EXCEPT ![STORAGE_KEYS.CURRENT_USER] =
        [fmt |-> "object", name |-> Stringify(profile).name,
         email |-> Stringify(profile).email]]

(* Profile and admin (storage.ts 342-367) *)

\* a sync that raises when the gateway gave it nothing
syncProfile_strict(profile, outcome, ss, ls) ==
    LET row == [email |-> profile.email, name |-> profile.name, last_active |-> JStr(Now)]
        c == callSheetsAPI("saveProfile", [row |-> row], outcome, ss, JUndef)
    IN  IF c.result.kind = "null"
        THEN Raise(c.message, c.sheets, ls, <<Summary(c)>>)
        ELSE Return(<<>>, c.sheets, ls, <<Summary(c)>>)

syncProfile(profile, outcome, ss, ls) ==
    LET row == [email |-> profile.email, name |-> profile.name, last_active |-> JStr(Now)]
        c == callSheetsAPI("saveProfile", [row |-> row], outcome, ss, JUndef)
    IN  IF c.threw
        THEN Raise(c.message, c.sheets, ls, <<Summary(c)>>)
        ELSE Return(<<>>, c.sheets, ls, <<Summary(c)>>)

\* admin.email && admin.email.toLowerCase() === user.email.toLowerCase()
SameAddress(admin, user) ==
    Truthy(admin.email) /\ ToLowerCase(admin.email.s) = ToLowerCase(user.email.s)

\* lines 360-366: the remote admin list
isAdmin_afterFetch(user, ls, admins) ==
    IF admins.threw
    THEN Raise(admins.message, admins.sheets, ls, <<Summary(admins)>>)
    ELSE IF TruthyResult(admins.result) /\ IsArray(admins.result)
    THEN Return(<<JBool(\E i \in 1..Len(admins.result.rows) :
                          SameAddress(admins.result.rows[i], user))>>,
                admins.sheets, ls, <<Summary(admins)>>)
    ELSE Return(<<JBool(FALSE)>>, admins.sheets, ls, <<Summary(admins)>>)

\* the addresses compared as they are written
isAdmin_caseSensitive(outcome, ss, ls, masterAdmin) ==
    LET user == getCurrentUser(ls)
    IN  IF ~Truthy(user.email)
        THEN Return(<<JBool(FALSE)>>, ss, ls, <<>>)
        ELSE IF masterAdmin # "" /\ user.email.s = masterAdmin
        THEN Return(<<JBool(TRUE)>>, ss, ls, <<>>)
        ELSE isAdmin_afterFetch(user, ls,
                                callSheetsAPI("getAdmins", NoData, outcome, ss, JUndef))

isAdmin(outcome, ss, ls, masterAdmin) ==
    LET user == getCurrentUser(ls)
    IN  IF ~Truthy(user.email)
        THEN Return(<<JBool(FALSE)>>, ss, ls, <<>>)
        ELSE IF masterAdmin # "" /\ ToLowerCase(user.email.s) = ToLowerCase(masterAdmin)
        THEN Return(<<JBool(TRUE)>>, ss, ls, <<>>)
        ELSE isAdmin_afterFetch(user, ls,
                                callSheetsAPI("getAdmins", NoData, outcome, ss, JUndef))

(* Genre Voting (storage.ts 249-317) *)

\* votesMap.get(key) after the forEach over sourceData: the last row whose
\* (name || id) is the key decides; undefined when there is none
VotesMapGet(sourceData, key) ==
    LET hits == {i \in 1..Len(sourceData) :
                    Or(sourceData[i].name, sourceData[i].id) = key}
    IN  IF hits = {} THEN JUndef
        ELSE LET i == CHOOSE k \in hits : \A j \in hits : j <= k
             IN  Number(Or(sourceData[i].votes, JNum(0)))

\* votesMap.get(name) || 0
GenreCount(sourceData, name) == Or(VotesMapGet(sourceData, JStr(name)), JNum(0))

\* (remoteData && Array.isArray(remoteData)) ? remoteData : localVotes
SourceData(result, localVotes) ==
    IF TruthyResult(result) /\ IsArray(result) THEN result.rows ELSE localVotes

getGenreVotes(outcome, ss, ls) ==
    LET remoteData == callSheetsAPI("getGenreVotes", NoData, outcome, ss, JUndef)
        localVotes == getLocal(ls, STORAGE_KEYS.GENRE_VOTES)
        sourceData == SourceData(remoteData.result, localVotes)
    IN  IF remoteData.threw
        THEN Raise(remoteData.message, remoteData.sheets, ls, <<Summary(remoteData)>>)
        ELSE Return([i \in 1..Len(DEFAULT_GENRES) |->
                        [id |-> JStr(DEFAULT_GENRES[i]), name |-> JStr(DEFAULT_GENRES[i]),
                         votes |-> GenreCount(sourceData, DEFAULT_GENRES[i])]],
                    remoteData.sheets, ls, <<Summary(remoteData)>>)

\* lines 296-303: the mirror write, once the read of line 295 has settled
voteForGenre_afterRead(genreName, ls, first, read) ==
    LET votes == read.ret
        index == FindIndex(votes, LAMBDA v : v.name = genreName)
        calls == <<first>> \o read.calls
    IN  IF read.raised
        THEN Raise(read.message, read.sheets, ls, calls)
        ELSE IF index # 0
        THEN Return(<<>>, read.sheets,
                    setLocal(ls, STORAGE_KEYS.GENRE_VOTES,
                             [votes EXCEPT ![index].votes = PlusOne(@)]),
                    calls)
        ELSE Return(<<>>, read.sheets,
                    setLocal(ls, STORAGE_KEYS.GENRE_VOTES,
                             Append(votes, [id |-> genreName, name |-> genreName,
                                            votes |-> JNum(1)])),
                    calls)

\* lines 291-295: the test of the voteGenre result, then the read
voteForGenre_afterVote(genreName, outcome2, ls, result) ==
    IF result.threw
    THEN Raise(result.message, result.sheets, ls, <<Summary(result)>>)
    ELSE IF TruthyResult(result.result) /\ result.result.status = "error"
    THEN Raise(result.result.message, result.sheets, ls, <<Summary(result)>>)
    ELSE voteForGenre_afterRead(genreName, ls, Summary(result),
                                getGenreVotes(outcome2, result.sheets, ls))

\* the vote sent without the test of the email
voteForGenre_unchecked(genreName, outcome, outcome2, ss, ls) ==
    voteForGenre_afterVote(genreName, outcome2, ls,
        callSheetsAPI("voteGenre", [name |-> genreName, email |-> getCurrentUser(ls).email],
                      outcome, ss, JUndef))

voteForGenre(genreName, outcome, outcome2, ss, ls) ==
    LET user == getCurrentUser(ls)
    IN  IF ~Truthy(user.email)
        THEN Raise("Please set your profile email to vote", ss, ls, <<>>)
        ELSE voteForGenre_afterVote(genreName, outcome2, ls,
                callSheetsAPI("voteGenre", [name |-> genreName, email |-> user.email],
                              outcome, ss, JUndef))

getUserVotedGenres(outcome, ss, ls) ==
    LET user == getCurrentUser(ls)
        remoteData == callSheetsAPI("getUserHistory", [email |-> user.email], outcome, ss,
                                    JUndef)
    IN  IF ~Truthy(user.email)
        THEN Return(<<>>, ss, ls, <<>>)
        ELSE IF remoteData.threw
        THEN Raise(remoteData.message, remoteData.sheets, ls, <<Summary(remoteData)>>)
        ELSE Return(IF IsArray(remoteData.result) THEN remoteData.result.rows ELSE <<>>,
                    remoteData.sheets, ls, <<Summary(remoteData)>>)

resetGenreVotes(outcome, ss, ls) ==
    LET c == callSheetsAPI("resetGenreVotes", NoData, outcome, ss, JUndef)
        genres == [i \in 1..Len(DEFAULT_GENRES) |->
                     [id |-> JStr(DEFAULT_GENRES[i]), name |-> JStr(DEFAULT_GENRES[i]),
                      votes |-> JNum(0)]]
    IN  IF c.threw
        THEN Raise(c.message, c.sheets, ls, <<Summary(c)>>)
        ELSE Return(<<>>, c.sheets, setLocal(ls, STORAGE_KEYS.GENRE_VOTES, genres), <<Summary(c)>>)

-----------------------------------------------------------------------------
(* Inputs.                                                                 *)

BookInputs ==
    { [id |-> JUndef, title |-> JStr("Dune"), author |-> JStr("Herbert"),
       rating |-> JNum(3), addedBy |-> JStr("Ann"), isMember |-> JBool(TRUE),
       createdAt |-> JUndef],
      [id |-> JUndef, title |-> JStr("Emma"), author |-> JStr("Austen"),
       rating |-> JUndef, addedBy |-> JStr("Bob"), isMember |-> JBool(FALSE),
       createdAt |-> JUndef] }

GuideInputs ==
    { [id |-> JUndef, title |-> JStr("Notes"), bookTitle |-> JStr("Dune"),
       fileSize |-> JNum(2), uploadedAt |-> JUndef],
      [id |-> JUndef, title |-> JStr("Essay"), bookTitle |-> JStr("Emma"),
       fileSize |-> JUndef, uploadedAt |-> JUndef] }

OptionInputs ==
    { [id |-> JUndef, bookTitle |-> JStr("Dune"), author |-> JStr("Herbert"),
       suggestedBy |-> JStr("Ann"), isMember |-> JBool(TRUE), votes |-> JNum(0),
       createdAt |-> JUndef],
      [id |-> JUndef, bookTitle |-> JStr("Emma"), author |-> JStr("Austen"),
       suggestedBy |-> JStr("Bob"), isMember |-> JBool(FALSE), votes |-> JNum(0),
       createdAt |-> JUndef] }

\* one of DEFAULT_GENRES and a name that is not one of them
GenreInputs == {JStr("Romance"), JStr("Poetry")}

Profiles ==
    { [name |-> JStr("Ann"), email |-> JStr("ann@torc.dev")],
      [name |-> JStr("Bob"), email |-> JStr("bob@torc.dev")] }

\* what a browser that has no profile with an email holds under bookclub_user:
\* nothing, the empty text, the JSON text of a string or a bare name (both
\* written by earlier versions), a profile whose email was left empty
StoredUsers ==
    { Absent,
      [fmt |-> "empty"],
      [fmt |-> "string", name |-> JStr("Ann")],
      [fmt |-> "raw", name |-> JStr("Ann")],
      [fmt |-> "object", name |-> JStr("Ann"), email |-> JStr("")] }

\* the profiles of the session that works on the user record
UserProfiles ==
    { [name |-> JStr("Ann"),   email |-> JStr("ann@torc.dev")],
      [name |-> JStr("Annie"), email |-> JStr("ann@torc.dev")],
      [name |-> JStr("Ann"),   email |-> JStr("ANN@TORC.DEV")],
      [name |-> JStr("Boss"),  email |-> JStr("boss@torc.dev")] }

\* the users tab as its owner left it: empty, or with rows whose is_admin cell
\* was set by hand
UsersTables ==
    { <<>>,
      <<[email |-> JStr("Ann@Torc.dev"), name |-> JStr("Ann"), is_admin |-> JBool(TRUE),
         last_active |-> JStr("")]>>,
      <<[email |-> JStr("boss@torc.dev"), name |-> JStr("Boss"), is_admin |-> JBool(FALSE),
         last_active |-> JStr("")],
        [email |-> JStr("ann@torc.dev"), name |-> JStr("Ann"), is_admin |-> JStr("TRUE"),
         last_active |-> JStr("")]>> }

Scopes == {"books", "guides", "votes", "genres", "user"}

\* an identifier that names nothing
UnknownId == JId("rand", 0)

\* the identifiers a caller can have seen: of the rows, of the mirror entries
KnownIds(rows, entries) ==
    {rows[i].id : i \in 1..Len(rows)} \cup {entries[i].id : i \in 1..Len(entries)}

\* what can happen to a request of this session
GatewayOutcomes == IF SCRIPT_URL = "" THEN {"unset"} ELSE Outcomes

-----------------------------------------------------------------------------
(* The state machine.                                                      *)

EmptySheets ==
    [books |-> <<>>, study_guides |-> <<>>, voting_options |-> <<>>, genre_votes |-> <<>>,
     user_genre_history |-> <<>>, users |-> <<>>]

EmptyStorage ==
    [k \in {STORAGE_KEYS.BOOKS, STORAGE_KEYS.GUIDES, STORAGE_KEYS.VOTES,
            STORAGE_KEYS.GENRE_VOTES, STORAGE_KEYS.CURRENT_USER} |-> Absent]

NoCall ==
    [op |-> "none", arg |-> <<>>, raised |-> FALSE, message |-> "", res |-> <<>>,
     calls |-> <<>>]

\* no page is open
NoPage == [name |-> "none"]

\* a browser with nothing stored but, at most, a user record, in front of a
\* freshly set-up spreadsheet
Init ==
    /\ SCRIPT_URL \in {"", "https://script.google.com/macros/s/x/exec"}
    /\ scope \in Scopes
    /\ ADMIN_EMAIL \in IF scope = "user" THEN {"", "Boss@Torc.dev"} ELSE {""}
    /\ \E users \in IF scope = "user" THEN UsersTables ELSE {<<>>} :
          sheets = [EmptySheets EXCEPT !.users = users]
    /\ \E user \in IF scope \in {"genres", "user"} THEN StoredUsers ELSE {Absent} :
          localStorage = [EmptyStorage EXCEPT ![STORAGE_KEYS.CURRENT_USER] = user]
    /\ last = NoCall
    /\ uuidCount = 0
    /\ randCount = 0
    /\ trail = <<>>
    /\ pending = <<>>
    /\ page = NoPage

\* the identifiers the two stores gave the entry of a served create: that of
\* the row the script appended, that of the entry put at the head of the mirror
CreatedIds(op, r) ==
    LET tab == IF op = "saveBook" THEN "books" ELSE "study_guides"
        key == IF op = "saveBook" THEN STORAGE_KEYS.BOOKS ELSE STORAGE_KEYS.GUIDES
    IN  <<r.sheets[tab][Len(r.sheets[tab])].id, r.store[key].items[1].id>>

\* the calls made since a read of the voting options, as long as they are two
\* votes for one option that the read returned, or one saveVotingOption, and the
\* read that follows them; a setCurrentUser and the getCurrentUser that follows;
\* a served create of a book or guide, the list the remote served next, the
\* served delete of the identifier that list gave the entry, and the latest
\* list made since
Track(op, arg, r) ==
    LET e == [op |-> op, arg |-> arg, res |-> r.ret,
              answer |-> IF Len(r.calls) > 0 THEN r.calls[1].answer ELSE "none"]
    IN  CASE op = "getVotingOptions" ->
                IF \/ Len(trail) = 3 /\ trail[3].op = "voteForOption"
                   \/ Len(trail) = 2 /\ trail[2].op = "saveVotingOption"
                THEN Append(trail, e) ELSE <<e>>
          [] op = "voteForOption" ->
                IF /\ Len(trail) \in {1, 2}
                   /\ \E i \in 1..Len(trail[1].res) : trail[1].res[i].id = arg
                   /\ Len(trail) = 2 => trail[2].op = "voteForOption" /\ trail[2].arg = arg
                THEN Append(trail, e) ELSE <<>>
          [] op = "saveVotingOption" ->
                IF Len(trail) = 1 THEN Append(trail, e) ELSE <<>>
          [] op = "setCurrentUser" -> <<e>>
          [] op \in {"saveBook", "saveStudyGuide"} ->
                IF Len(trail) >= 3 THEN trail
                ELSE IF e.answer = "success" THEN <<[e EXCEPT !.res = CreatedIds(op, r)]>>
                ELSE <<>>
          [] op \in {"getBooks", "getStudyGuides"} ->
                IF Len(trail) = 1 /\ trail[1].op \in {"saveBook", "saveStudyGuide"}
                                  /\ e.answer = "list"
                THEN Append(trail, e)
                ELSE IF Len(trail) = 3 /\ trail[3].op \in {"deleteBook", "deleteStudyGuide"}
                THEN Append(trail, e)
                ELSE IF Len(trail) = 4 /\ trail[3].op \in {"deleteBook", "deleteStudyGuide"}
                THEN [trail EXCEPT ![4] = e]
                ELSE <<>>
          [] op \in {"deleteBook", "deleteStudyGuide"} ->
                IF Len(trail) >= 3 THEN trail
                ELSE IF Len(trail) = 2 /\ trail[2].op \in {"getBooks", "getStudyGuides"}
                                       /\ arg = trail[1].res[1] /\ e.answer = "success"
                THEN Append(trail, e)
                ELSE <<>>
          [] op = "getCurrentUser" ->
                IF Len(trail) = 1 /\ trail[1].op = "setCurrentUser"
                THEN Append(trail, e) ELSE <<>>
          [] OTHER -> <<>>

\* the call op(arg) completes as r
Finish(op, arg, r) ==
    /\ trail' = Track(op, arg, r)
    /\ sheets' = r.sheets
    /\ localStorage' = r.store
    /\ last' = [op |-> op, arg |-> arg, raised |-> r.raised, message |-> r.message,
                res |-> r.ret, calls |-> r.calls]
    /\ UNCHANGED <<SCRIPT_URL, ADMIN_EMAIL, scope, pending, page>>

\* a create call draws one Math.random() identifier, and one Utilities.getUuid()
\* when the script appends its row
Create(op, arg, r, sheetName) ==
    /\ Finish(op, arg, r)
    /\ randCount' = randCount + 1
    /\ uuidCount' = IF Len(r.sheets[sheetName]) > Len(sheets[sheetName])
                    THEN uuidCount + 1 ELSE uuidCount

NextUuid == JId("uuid", uuidCount + 1)
NextRand == JId("rand", randCount + 1)

GetBooks ==
    /\ scope = "books"
    /\ \E o \in GatewayOutcomes :
          Finish("getBooks", <<>>, getBooks(o, sheets, localStorage))
    /\ UNCHANGED <<uuidCount, randCount>>

SaveBook ==
    /\ scope = "books"
    /\ randCount < MaxCreates
    /\ \E book \in BookInputs, o \in GatewayOutcomes :
          Create("saveBook", book,
                 saveBook(book, o, sheets, localStorage, NextUuid, NextRand), "books")

DeleteBook ==
    /\ scope = "books"
    /\ \E o \in GatewayOutcomes,
          id \in KnownIds(sheets.books, getLocal(localStorage, STORAGE_KEYS.BOOKS))
                    \cup {UnknownId} :
          Finish("deleteBook", id, deleteBook(id, o, sheets, localStorage))
    /\ UNCHANGED <<uuidCount, randCount>>

GetStudyGuides ==
    /\ scope = "guides"
    /\ \E o \in GatewayOutcomes :
          Finish("getStudyGuides", <<>>, getStudyGuides(o, sheets, localStorage))
    /\ UNCHANGED <<uuidCount, randCount>>

SaveStudyGuide ==
    /\ scope = "guides"
    /\ randCount < MaxCreates
    /\ \E guide \in GuideInputs, o \in GatewayOutcomes :
          Create("saveStudyGuide", guide,
                 saveStudyGuide(guide, o, sheets, localStorage, NextUuid, NextRand),
                 "study_guides")

DeleteStudyGuide ==
    /\ scope = "guides"
    /\ \E o \in GatewayOutcomes,
          id \in KnownIds(sheets.study_guides, getLocal(localStorage, STORAGE_KEYS.GUIDES))
                    \cup {UnknownId} :
          Finish("deleteStudyGuide", id,
                 deleteStudyGuide(id, o, sheets, localStorage))
    /\ UNCHANGED <<uuidCount, randCount>>

GetVotingOptions ==
    /\ scope = "votes"
    /\ \E o \in GatewayOutcomes :
          Finish("getVotingOptions", <<>>, getVotingOptions(o, sheets, localStorage))
    /\ UNCHANGED <<uuidCount, randCount>>

SaveVotingOption ==
    /\ scope = "votes"
    /\ randCount < MaxCreates
    /\ \E option \in OptionInputs, o \in GatewayOutcomes :
          Create("saveVotingOption", option,
                 saveVotingOption(option, o, sheets, localStorage, NextUuid, NextRand),
                 "voting_options")

\* every count stored under this identifier (or genre name) is below MaxVotes
CountsBelowBound(rows, entries, Hit(_)) ==
    /\ \A i \in 1..Len(rows) : Hit(rows[i]) => ParseIntOr0(rows[i].votes) < MaxVotes
    /\ \A i \in 1..Len(entries) : Hit(entries[i]) => entries[i].votes.n < MaxVotes

VoteForOption ==
    /\ scope = "votes"
    /\ \E o \in GatewayOutcomes,
          id \in KnownIds(sheets.voting_options, getLocal(localStorage, STORAGE_KEYS.VOTES))
                    \cup {UnknownId} :
          /\ CountsBelowBound(sheets.voting_options,
                              getLocal(localStorage, STORAGE_KEYS.VOTES),
                              LAMBDA e : e.id = id)
          /\ Finish("voteForOption", id, voteForOption(id, o, sheets, localStorage))
    /\ UNCHANGED <<uuidCount, randCount>>

ClearVotingOptions ==
    /\ scope = "votes"
    /\ \E o \in GatewayOutcomes :
          Finish("clearVotingOptions", <<>>,
                 clearVotingOptions(o, sheets, localStorage))
    /\ UNCHANGED <<uuidCount, randCount>>

GetGenreVotes ==
    /\ scope = "genres"
    /\ \E o \in GatewayOutcomes :
          Finish("getGenreVotes", <<>>, getGenreVotes(o, sheets, localStorage))
    /\ UNCHANGED <<uuidCount, randCount>>

VoteForGenre ==
    /\ scope = "genres"
    /\ \E o \in GatewayOutcomes, o2 \in GatewayOutcomes, genreName \in GenreInputs :
          /\ Len(sheets.user_genre_history) < MaxHistory
          /\ CountsBelowBound(sheets.genre_votes,
                              getLocal(localStorage, STORAGE_KEYS.GENRE_VOTES),
                              LAMBDA e : e.name = genreName)
          /\ Finish("voteForGenre", genreName,
                    voteForGenre(genreName, o, o2, sheets, localStorage))
    /\ UNCHANGED <<uuidCount, randCount>>

GetUserVotedGenres ==
    /\ scope = "genres"
    /\ \E o \in GatewayOutcomes :
          Finish("getUserVotedGenres", <<>>,
                 getUserVotedGenres(o, sheets, localStorage))
    /\ UNCHANGED <<uuidCount, randCount>>

ResetGenreVotes ==
    /\ scope = "genres"
    /\ \E o \in GatewayOutcomes :
          Finish("resetGenreVotes", <<>>, resetGenreVotes(o, sheets, localStorage))
    /\ UNCHANGED <<uuidCount, randCount>>

GetCurrentUser ==
    /\ scope = "user"
    /\ Finish("getCurrentUser", <<>>,
              Return(<<getCurrentUser(localStorage)>>, sheets, localStorage, <<>>))
    /\ UNCHANGED <<uuidCount, randCount>>

SyncProfile ==
    /\ scope = "user"
    /\ \E profile \in UserProfiles, o \in GatewayOutcomes :
          /\ \/ Len(sheets.users) < MaxUsers
             \/ \E i \in 1..Len(sheets.users) : sheets.users[i].email = profile.email
          /\ Finish("syncProfile", profile, syncProfile(profile, o, sheets, localStorage))
    /\ UNCHANGED <<uuidCount, randCount>>

IsAdmin ==
    /\ scope = "user"
    /\ \E o \in GatewayOutcomes :
          Finish("isAdmin", <<>>, isAdmin(o, sheets, localStorage, ADMIN_EMAIL))
    /\ UNCHANGED <<uuidCount, randCount>>

SetCurrentUser ==
    /\ scope \in {"genres", "user"}
    /\ \E profile \in IF scope = "user" THEN UserProfiles ELSE Profiles :
          Finish("setCurrentUser", profile,
                 Return(<<>>, sheets, setCurrentUser(localStorage, profile), <<>>))
    /\ UNCHANGED <<uuidCount, randCount>>

Next ==
    \/ GetBooks
    \/ SaveBook
    \/ DeleteBook
    \/ GetStudyGuides
    \/ SaveStudyGuide
    \/ DeleteStudyGuide
    \/ GetVotingOptions
    \/ SaveVotingOption
    \/ VoteForOption
    \/ ClearVotingOptions
    \/ GetGenreVotes
    \/ VoteForGenre
    \/ GetUserVotedGenres
    \/ ResetGenreVotes
    \/ SetCurrentUser
    \/ GetCurrentUser
    \/ SyncProfile
    \/ IsAdmin

Spec == Init /\ [][Next]_vars

-----------------------------------------------------------------------------
(* The genre read on arbitrary rows: the genre_votes tab, or the mirror,   *)
(* starts with any list of at most MaxRows rows over these cells, and the  *)
(* session reads it.                                                       *)

ArbitraryGenreRows ==
    [id    : {JStr("Horror"), JUndef},
     name  : {JStr("Horror"), JStr("Romance"), JStr("Poetry"), JStr("")},
     votes : {JUndef, JNum(0), JNum(2), JNum(-1), JStr("3"), JStr("abc")}]

RowLists == UNION {[1..k -> ArbitraryGenreRows] : k \in 0..MaxRows}

InitRows ==
    /\ SCRIPT_URL \in {"", "https://script.google.com/macros/s/x/exec"}
    /\ scope = "genres"
    /\ ADMIN_EMAIL = ""
    /\ \E rows \in RowLists :
          \/ /\ sheets = [EmptySheets EXCEPT !.genre_votes = rows]
             /\ localStorage = EmptyStorage
          \/ /\ sheets = EmptySheets
             /\ localStorage = setLocal(EmptyStorage, STORAGE_KEYS.GENRE_VOTES, rows)
    /\ last = NoCall
    /\ uuidCount = 0
    /\ randCount = 0
    /\ trail = <<>>
    /\ pending = <<>>
    /\ page = NoPage

SpecGenreRead == InitRows /\ [][GetGenreVotes]_vars

-----------------------------------------------------------------------------
(* The membership flag read from arbitrary cells: the books tab, or the     *)
(* voting_options tab, starts with any list of at most MaxRows rows whose   *)
(* is_member cell is one of these values, and the session reads it.         *)

FlagCells ==
    {JStr("TRUE"), JBool(TRUE), JStr("FALSE"), JBool(FALSE), JUndef, JStr(""),
     JStr("true"), JNum(1), JStr("yes")}

\* the k-th row of a tab, with this is_member cell
FlagRow(sheetName, k, cell) ==
    [h \in Headers(sheetName) |->
        IF h = "is_member" THEN cell
        ELSE IF h = "id" THEN JId("uuid", k)
        ELSE IF h \in {"votes", "rating"} THEN JNum(0)
        ELSE JStr("")]

InitFlags ==
    /\ SCRIPT_URL = "https://script.google.com/macros/s/x/exec"
    /\ scope \in {"books", "votes"}
    /\ ADMIN_EMAIL = ""
    /\ \E cells \in UNION {[1..k -> FlagCells] : k \in 0..MaxRows} :
          LET sheetName == IF scope = "books" THEN "books" ELSE "voting_options"
          IN  sheets = [EmptySheets EXCEPT
                           ![sheetName] = [i \in 1..Len(cells) |->
                                              FlagRow(sheetName, i, cells[i])]]
    /\ localStorage = EmptyStorage
    /\ last = NoCall
    /\ uuidCount = 0
    /\ randCount = 0
    /\ trail = <<>>
    /\ pending = <<>>
    /\ page = NoPage

SpecFlagRead == InitFlags /\ [][GetBooks \/ GetVotingOptions]_vars

-----------------------------------------------------------------------------
(* Calls in flight.  An async adapter runs up to its await, where the call  *)
(* is suspended; the remote serves the request, or the request fails; the   *)
(* continuation runs, when the event loop gets to it, up to the next await  *)
(* or to the end.  A call may be started while others are in flight, and    *)
(* the continuations of different calls run in any order.                   *)

\* at most this many calls are started
MaxCalls == 3

InFlight == {i \in 1..Len(pending) : pending[i].pc # "done"}

\* a call suspended at its first await; user is what line 283 read
Call(op, arg) ==
    [op |-> op, arg |-> arg, pc |-> "sent", overlap |-> InFlight # {},
     user |-> getCurrentUser(localStorage), atStart |-> localStorage, outcome |-> "",
     seen |-> EmptySheets, uuid |-> JUndef, first |-> <<>>, read |-> <<>>,
     raised |-> FALSE]

\* a call that has completed
Completed(p, raised) ==
    [p EXCEPT !.pc = "done", !.raised = raised, !.atStart = EmptyStorage,
              !.seen = EmptySheets, !.first = <<>>, !.read = <<>>]

\* the adapters with one await: the gateway call, then the mirror update
OneAwait ==
    {"saveBook", "saveStudyGuide", "saveVotingOption", "voteForOption", "deleteBook",
     "deleteStudyGuide"}

Creates == {"saveBook", "saveStudyGuide", "saveVotingOption"}

\* the call of p as a function of how its request ends, of the sheet the
\* request is served on and of the mirror its continuation finds
Run(p, o, ss, ls, uuid, rand) ==
    CASE p.op = "saveBook"         -> saveBook(p.arg, o, ss, ls, uuid, rand)
      [] p.op = "saveStudyGuide"   -> saveStudyGuide(p.arg, o, ss, ls, uuid, rand)
      [] p.op = "saveVotingOption" -> saveVotingOption(p.arg, o, ss, ls, uuid, rand)
      [] p.op = "voteForOption"    -> voteForOption(p.arg, o, ss, ls)
      [] p.op = "deleteBook"       -> deleteBook(p.arg, o, ss, ls)
      [] p.op = "deleteStudyGuide" -> deleteStudyGuide(p.arg, o, ss, ls)

\* the mirror read before the await, when the call was started
MirrorRead_stale(atStart, atResume) == atStart

\* getLocal is called after the await (lines 137, 144, 150, 194, 227, 235): the
\* continuation reads the mirror as it is when it runs
MirrorRead(atStart, atResume) == atResume

\* one input of a set
OneOf(inputs) == {CHOOSE x \in inputs : TRUE}

\* how a request can end: the non-2xx status and the error body give the
\* adapter the same null as the transport failure
CallOutcomes == IF SCRIPT_URL = "" THEN {"unset"} ELSE {"network", "ok"}

\* the calls a caller can start in this session
Startable ==
    CASE scope = "books" ->
            {Call("saveBook", b) : b \in OneOf(BookInputs)} \cup
            {Call("deleteBook", id) :
                id \in KnownIds(sheets.books, getLocal(localStorage, STORAGE_KEYS.BOOKS))}
      [] scope = "guides" ->
            {Call("saveStudyGuide", g) : g \in OneOf(GuideInputs)} \cup
            {Call("deleteStudyGuide", id) :
                id \in KnownIds(sheets.study_guides,
                                getLocal(localStorage, STORAGE_KEYS.GUIDES))}
      [] scope = "votes" ->
            {Call("saveVotingOption", o) : o \in OneOf(OptionInputs)} \cup
            {Call("voteForOption", id) :
                id \in KnownIds(sheets.voting_options,
                                getLocal(localStorage, STORAGE_KEYS.VOTES))}
      [] scope = "genres" ->
            \* line 284: without an email the call raises before any request
            {IF Truthy(getCurrentUser(localStorage).email)
             THEN Call("voteForGenre", g)
             ELSE Completed(Call("voteForGenre", g), TRUE) : g \in GenreInputs}

StartCall ==
    /\ Len(pending) < MaxCalls
    /\ \E c \in Startable : pending' = Append(pending, c)
    /\ UNCHANGED <<SCRIPT_URL, ADMIN_EMAIL, sheets, localStorage, last, uuidCount,
                   randCount, scope, trail, page>>

\* the request of a one-await adapter ends: served by the script, or failed
Serve ==
    \E i \in 1..Len(pending), o \in CallOutcomes :
        LET p == pending[i]
            r == Run(p, o, sheets, localStorage, NextUuid, NextRand)
        IN  /\ p.pc = "sent"
            /\ p.op \in OneAwait
            /\ sheets' = r.sheets
            /\ uuidCount' = IF p.op \in Creates /\ r.calls[1].answer = "success"
                            THEN uuidCount + 1 ELSE uuidCount
            /\ pending' = [pending EXCEPT ![i] =
                              [p EXCEPT !.pc = "answered", !.outcome = o, !.uuid = NextUuid]]
            /\ UNCHANGED <<SCRIPT_URL, ADMIN_EMAIL, localStorage, last, randCount, scope,
                           trail, page>>

\* the continuation of a one-await adapter: the mirror update, to the end; it
\* does not look at the response (line 134: remoteResult is not used)
Deliver ==
    \E i \in 1..Len(pending) :
        LET p == pending[i]
            r == Run(p, p.outcome, sheets, MirrorRead(p.atStart, localStorage), p.uuid,
                     NextRand)
        IN  /\ p.pc = "answered"
            /\ p.op \in OneAwait
            /\ localStorage' = r.store
            /\ randCount' = IF p.op \in Creates THEN randCount + 1 ELSE randCount
            /\ pending' = [pending EXCEPT ![i] = Completed(p, r.raised)]
            /\ UNCHANGED <<SCRIPT_URL, ADMIN_EMAIL, sheets, last, uuidCount, scope, trail,
                           page>>

\* the voteGenre request of voteForGenre (lines 286-289) ends
ServeVote ==
    \E i \in 1..Len(pending), o \in CallOutcomes :
        LET p == pending[i]
            c == callSheetsAPI("voteGenre", [name |-> p.arg, email |-> p.user.email], o,
                               sheets, JUndef)
        IN  /\ p.pc = "sent"
            /\ p.op = "voteForGenre"
            /\ sheets' = c.sheets
            /\ pending' = [pending EXCEPT ![i] =
                              [p EXCEPT !.pc = "answered", !.outcome = o, !.seen = sheets]]
            /\ UNCHANGED <<SCRIPT_URL, ADMIN_EMAIL, localStorage, last, uuidCount,
                           randCount, scope, trail, page>>

\* lines 291-295: the result is tested and getGenreVotes sends its request
DeliverVote ==
    \E i \in 1..Len(pending) :
        LET p == pending[i]
            c == callSheetsAPI("voteGenre", [name |-> p.arg, email |-> p.user.email],
                               p.outcome, p.seen, JUndef)
        IN  /\ p.pc = "answered"
            /\ p.op = "voteForGenre"
            /\ pending' = [pending EXCEPT ![i] =
                              IF c.threw \/ (TruthyResult(c.result)
                                             /\ c.result.status = "error")
                              THEN Completed(p, TRUE)
                              ELSE [p EXCEPT !.pc = "sent2", !.outcome = "",
                                             !.seen = EmptySheets,
                                             !.first = Summary(c)]]
            /\ UNCHANGED <<SCRIPT_URL, ADMIN_EMAIL, sheets, localStorage, last, uuidCount,
                           randCount, scope, trail, page>>

\* the getGenreVotes request (line 261) ends
ServeRead ==
    \E i \in 1..Len(pending), o \in CallOutcomes :
        LET p == pending[i]
        IN  /\ p.pc = "sent2"
            /\ pending' = [pending EXCEPT ![i] =
                              [p EXCEPT !.pc = "answered2", !.outcome = o, !.seen = sheets]]
            /\ UNCHANGED <<SCRIPT_URL, ADMIN_EMAIL, sheets, localStorage, last, uuidCount,
                           randCount, scope, trail, page>>

\* lines 262-279: getGenreVotes reads the mirror, builds the 8 entries and returns
DeliverRead ==
    \E i \in 1..Len(pending) :
        LET p == pending[i]
            r == getGenreVotes(p.outcome, p.seen, localStorage)
        IN  /\ p.pc = "answered2"
            /\ pending' = [pending EXCEPT ![i] =
                              IF r.raised THEN Completed(p, TRUE)
                              ELSE [p EXCEPT !.pc = "read", !.read = r.ret,
                                             !.seen = EmptySheets]]
            /\ UNCHANGED <<SCRIPT_URL, ADMIN_EMAIL, sheets, localStorage, last, uuidCount,
                           randCount, scope, trail, page>>

\* lines 296-303: voteForGenre resumes with the entries and writes the mirror
Resume ==
    \E i \in 1..Len(pending) :
        LET p == pending[i]
            r == voteForGenre_afterRead(p.arg, localStorage, p.first,
                                        Return(p.read, sheets, localStorage, <<>>))
        IN  /\ p.pc = "read"
            /\ localStorage' = r.store
            /\ pending' = [pending EXCEPT ![i] = Completed(p, r.raised)]
            /\ UNCHANGED <<SCRIPT_URL, ADMIN_EMAIL, sheets, last, uuidCount, randCount,
                           scope, trail, page>>

\* the profile of the session that votes for genres
Voter == [name |-> JStr("Ann"), email |-> JStr("ann@torc.dev")]

\* the books and guides sessions start empty; the votes session starts with
\* one option suggested earlier; the genre session with or without a profile
InitCalls ==
    /\ SCRIPT_URL \in {"", "https://script.google.com/macros/s/x/exec"}
    /\ scope \in {"books", "guides", "votes", "genres"}
    /\ ADMIN_EMAIL = ""
    /\ \/ /\ scope \in {"books", "guides"}
          /\ sheets = EmptySheets
          /\ localStorage = EmptyStorage
          /\ uuidCount = 0
          /\ randCount = 0
       \/ /\ scope = "votes"
          /\ \E option \in OneOf(OptionInputs) :
                LET r == saveVotingOption(option, IF SCRIPT_URL = "" THEN "unset" ELSE "ok",
                                          EmptySheets, EmptyStorage, JId("uuid", 1),
                                          JId("rand", 1))
                IN  sheets = r.sheets /\ localStorage = r.store
          /\ uuidCount = IF SCRIPT_URL = "" THEN 0 ELSE 1
          /\ randCount = 1
       \/ /\ scope = "genres"
          /\ sheets = EmptySheets
          /\ localStorage \in {EmptyStorage, setCurrentUser(EmptyStorage, Voter)}
          /\ uuidCount = 0
          /\ randCount = 0
    /\ last = NoCall
    /\ trail = <<>>
    /\ pending = <<>>
    /\ page = NoPage

NextCalls ==
    \/ StartCall
    \/ Serve
    \/ Deliver
    \/ ServeVote
    \/ DeliverVote
    \/ ServeRead
    \/ DeliverRead
    \/ Resume

SpecCalls == InitCalls /\ [][NextCalls]_vars

-----------------------------------------------------------------------------
(* The StudyGuides and Vote pages (part_000 12-318, 331-712).  page is the  *)
(* React state of the page that is open; pending holds the async handlers   *)
(* that were started, each at its await.  While loading is true the page    *)
(* renders the loading screen only (lines 150, 482), so the user starts a   *)
(* handler only when it is false.                                           *)

\* at most this many handlers are started on a page, the mount effect included
MaxHandlers == 3

\* at most this many files are selected
MaxFiles == 2

\* text under a mirror key that is not JSON: localStorage belongs to the
\* origin, not to this program, and keeps what anything else wrote there
Garbled == [fmt |-> "text", items |-> <<>>]

\* JSON.parse of line 96 throws a SyntaxError
getLocalThrows(ls, key) == ls[key] = Garbled

\* the result r of an adapter, or the SyntaxError of its getLocal when it
\* reads the mirror (reads) and the text there is not JSON
Parsed(r, reads, ls, key) ==
    IF ~r.raised /\ reads /\ getLocalThrows(ls, key)
    THEN Raise("SyntaxError", r.sheets, ls, r.calls)
    ELSE r

\* a list read calls getLocal only on the fallback path (lines 175, 214)
FallbackParsed(r, ls, key) == Parsed(r, r.calls[1].kind = "null", ls, key)

\* what a read of a page's load settles to; getGenreVotes calls getLocal
\* whatever the remote returned (line 262)
PageRead(read, o, ss, ls) ==
    CASE read = "getStudyGuides" ->
            FallbackParsed(getStudyGuides(o, ss, ls), ls, STORAGE_KEYS.GUIDES)
      [] read = "getVotingOptions" ->
            FallbackParsed(getVotingOptions(o, ss, ls), ls, STORAGE_KEYS.VOTES)
      [] read = "getGenreVotes" ->
            Parsed(getGenreVotes(o, ss, ls), TRUE, ls, STORAGE_KEYS.GENRE_VOTES)

\* useState of lines 13-21 and 332-341
BlankForm == [title |-> JStr(""), bookTitle |-> JStr("")]

PageOf(name) ==
    [name |-> name, loading |-> TRUE, uploading |-> FALSE, items |-> <<>>,
     genreVotes |-> <<>>, open |-> FALSE, form |-> BlankForm, selectedFiles |-> <<>>,
     toast |-> ""]

\* the files of the file input: a .docx file and one that is not
Files ==
    { [stem |-> "Essay", docx |-> TRUE, size |-> JNum(2)],
      [stem |-> "cover", docx |-> FALSE, size |-> JNum(1)] }

\* lines 94-100: title is never typed (the form has no field for it), so it is
\* file.name.replace('.docx', '')
NewGuide(form, file) ==
    [id |-> JUndef, title |-> Or(form.title, JStr(file.stem)),
     bookTitle |-> form.bookTitle, fileSize |-> file.size, uploadedAt |-> JUndef]

\* a read of a load, its request sent
Sent(read) == [read |-> read, st |-> "sent", outcome |-> "", seen |-> EmptySheets,
               ret |-> <<>>]

\* loadGuides awaits one read, loadOptions Promise.all of two (lines 31, 351-354)
LoadReads ==
    IF page.name = "StudyGuides"
    THEN <<Sent("getStudyGuides")>>
    ELSE <<Sent("getVotingOptions"), Sent("getGenreVotes")>>

\* a handler suspended at the request of its adapter
Handler(op, arg, files, form) ==
    [op |-> op, arg |-> arg, pc |-> "saving", files |-> files, form |-> form,
     outcome |-> "", uuid |-> JUndef, reads |-> <<>>, raised |-> FALSE]

\* the handler calls loadGuides or loadOptions: line 29 or 349, and the reads
BeginLoad(p) == [p EXCEPT !.pc = "loading", !.outcome = "", !.uuid = JUndef,
                          !.reads = LoadReads]

\* the handler has ended
Ended(p, raised) ==
    [p EXCEPT !.pc = "done", !.raised = raised, !.outcome = "", !.uuid = JUndef,
              !.reads = <<>>, !.files = <<>>, !.form = BlankForm]

Loads == {"loadGuides", "loadOptions"}

\* the adapter call a handler awaits first
Request(p) ==
    CASE p.op = "handleSubmit" ->
            [op |-> "saveStudyGuide", arg |-> NewGuide(p.form, Head(p.files))]
      [] p.op = "handleDelete" -> [op |-> "deleteStudyGuide", arg |-> p.arg]
      [] p.op = "handleVote"   -> [op |-> "voteForOption", arg |-> p.arg]

\* the mirror key the adapter of a handler reads after its await
MirrorKey(p) ==
    IF p.op = "handleVote" THEN STORAGE_KEYS.VOTES ELSE STORAGE_KEYS.GUIDES

\* the toasts of the catch blocks (lines 115, 136, 407)
ErrorToast(p) ==
    CASE p.op = "handleSubmit" -> "Error uploading files"
      [] p.op = "handleDelete" -> "Error deleting guide"
      [] p.op = "handleVote"   -> "Error recording vote"

\* the finally of a load (lines 40-42, 364-366), as it would be were
\* setLoading(false) the last statement of the try block
LoadingAfter_tryOnly(loading, failed) == IF failed THEN loading ELSE FALSE

\* the finally of a load (lines 40-42, 364-366)
LoadingAfter(loading, failed) == FALSE

\* useEffect of lines 24-26 and 344-346: the load of the mount
Mount ==
    /\ page.name # "none"
    /\ pending = <<>>
    /\ page' = [page EXCEPT !.loading = TRUE]
    /\ pending' =
          <<BeginLoad(Handler(IF page.name = "StudyGuides" THEN "loadGuides"
                              ELSE "loadOptions", JUndef, <<>>, BlankForm))>>
    /\ UNCHANGED <<SCRIPT_URL, ADMIN_EMAIL, sheets, localStorage, last, uuidCount,
                   randCount, scope, trail>>

\* the request of a read of a load ends
ServeLoad ==
    \E i \in 1..Len(pending), o \in CallOutcomes :
        \E k \in 1..Len(pending[i].reads) :
            /\ pending[i].pc = "loading"
            /\ pending[i].reads[k].st = "sent"
            /\ pending' = [pending EXCEPT ![i].reads[k] =
                              [@ EXCEPT !.st = "answered", !.outcome = o, !.seen = sheets]]
            /\ UNCHANGED <<SCRIPT_URL, ADMIN_EMAIL, sheets, localStorage, last, uuidCount,
                           randCount, scope, trail, page>>

\* the continuation of a read: it returns its list, or raises
DeliverLoad ==
    \E i \in 1..Len(pending) :
        \E k \in 1..Len(pending[i].reads) :
            /\ pending[i].pc = "loading"
            /\ pending[i].reads[k].st = "answered"
            /\ \E q \in {pending[i].reads[k]} :
               \E r \in {PageRead(q.read, q.outcome, q.seen, localStorage)} :
                  pending' = [pending EXCEPT ![i].reads[k] =
                                 [q EXCEPT !.st = IF r.raised THEN "raised" ELSE "ok",
                                           !.ret = r.ret, !.seen = EmptySheets]]
            /\ UNCHANGED <<SCRIPT_URL, ADMIN_EMAIL, sheets, localStorage, last, uuidCount,
                           randCount, scope, trail, page>>

\* a read of the load raised
LoadFailed(p) == \E k \in 1..Len(p.reads) : p.reads[k].st = "raised"

\* every read of the load returned
LoadRead(p) == \A k \in 1..Len(p.reads) : p.reads[k].st = "ok"

\* lines 32-42 and 355-366: the awaited reads have settled (Promise.all rejects
\* with the first read that raises); the lists are set or the toast is shown,
\* and loading is set false
SettleLoad ==
    \E i \in 1..Len(pending) :
        LET p == pending[i]
            failed == LoadFailed(p)
        IN  /\ p.pc = "loading"
            /\ failed \/ LoadRead(p)
            /\ page' = [page EXCEPT
                           !.items = IF failed THEN @ ELSE p.reads[1].ret,
                           !.genreVotes = IF failed \/ Len(p.reads) < 2 THEN @
                                          ELSE p.reads[2].ret,
                           !.toast = IF ~failed THEN @
                                     ELSE IF page.name = "StudyGuides"
                                     THEN "Error loading guides"
                                     ELSE "Error loading options",
                           !.loading = LoadingAfter(@, failed)]
            /\ pending' = [pending EXCEPT ![i] =
                              IF p.op \in Loads THEN Ended(p, failed)
                              ELSE [p EXCEPT !.pc = "after", !.reads = <<>>]]
            /\ UNCHANGED <<SCRIPT_URL, ADMIN_EMAIL, sheets, localStorage, last, uuidCount,
                           randCount, scope, trail>>

\* Dialog onOpenChange={setOpen}
SetOpen ==
    /\ page.name = "StudyGuides"
    /\ ~page.loading
    /\ page' = [page EXCEPT !.open = ~@]
    /\ UNCHANGED <<SCRIPT_URL, ADMIN_EMAIL, sheets, localStorage, last, uuidCount,
                   randCount, scope, trail, pending>>

\* the onChange of the book title field (line 201)
SetFormData ==
    /\ page.name = "StudyGuides"
    /\ ~page.loading
    /\ page.open
    /\ \E t \in {JStr(""), JStr("Dune")} :
          /\ t # page.form.bookTitle
          /\ page' = [page EXCEPT !.form.bookTitle = t]
    /\ UNCHANGED <<SCRIPT_URL, ADMIN_EMAIL, sheets, localStorage, last, uuidCount,
                   randCount, scope, trail, pending>>

\* lines 45-64: the .docx files of the input are added to the selection
handleFileChange ==
    /\ page.name = "StudyGuides"
    /\ ~page.loading
    /\ page.open
    /\ Len(page.selectedFiles) < MaxFiles
    /\ \E file \in Files :
          page' = IF file.docx
                  THEN [page EXCEPT !.selectedFiles = Append(@, file)]
                  ELSE [page EXCEPT !.toast = "Invalid file type"]
    /\ UNCHANGED <<SCRIPT_URL, ADMIN_EMAIL, sheets, localStorage, last, uuidCount,
                   randCount, scope, trail, pending>>

\* lines 66-68
removeFile ==
    /\ page.name = "StudyGuides"
    /\ ~page.loading
    /\ page.open
    /\ \E index \in 1..Len(page.selectedFiles) :
          page' = [page EXCEPT !.selectedFiles =
                      SubSeq(@, 1, index - 1) \o SubSeq(@, index + 1, Len(@))]
    /\ UNCHANGED <<SCRIPT_URL, ADMIN_EMAIL, sheets, localStorage, last, uuidCount,
                   randCount, scope, trail, pending>>

\* lines 75-92: the submit of the form, up to the first save request; the
\* button is disabled while uploading (line 251) and the book title is
\* required (line 202); uploadStudyGuideFile (storage.ts 177-181) makes no
\* request
handleSubmit ==
    /\ page.name = "StudyGuides"
    /\ ~page.loading
    /\ page.open
    /\ ~page.uploading
    /\ Truthy(page.form.bookTitle)
    /\ IF page.selectedFiles = <<>>
       THEN /\ page' = [page EXCEPT !.toast = "No files selected"]
            /\ UNCHANGED pending
       ELSE /\ Len(pending) < MaxHandlers
            /\ page' = [page EXCEPT !.uploading = TRUE]
            /\ pending' = Append(pending, Handler("handleSubmit", JUndef,
                                                  page.selectedFiles, page.form))
    /\ UNCHANGED <<SCRIPT_URL, ADMIN_EMAIL, sheets, localStorage, last, uuidCount,
                   randCount, scope, trail>>

\* lines 125-131 and 400-402: a guide of the list is deleted, an option of
\* the list is voted for, up to the request
handleListed ==
    /\ page.name # "none"
    /\ ~page.loading
    /\ Len(pending) < MaxHandlers
    /\ \E k \in 1..Len(page.items) :
          pending' = Append(pending,
                            Handler(IF page.name = "StudyGuides" THEN "handleDelete"
                                    ELSE "handleVote", page.items[k].id, <<>>, BlankForm))
    /\ UNCHANGED <<SCRIPT_URL, ADMIN_EMAIL, sheets, localStorage, last, uuidCount,
                   randCount, scope, trail, page>>

\* the request of the adapter a handler awaits ends
ServeSave ==
    \E i \in 1..Len(pending), o \in CallOutcomes :
        /\ pending[i].pc = "saving"
        /\ \E request \in {Request(pending[i])} :
           \E r \in {Run(request, o, sheets, localStorage, NextUuid, NextRand)} :
              /\ sheets' = r.sheets
              /\ uuidCount' = IF pending[i].op = "handleSubmit"
                                 /\ r.calls[1].answer = "success"
                              THEN uuidCount + 1 ELSE uuidCount
        /\ pending' = [pending EXCEPT ![i] =
                          [@ EXCEPT !.pc = "saved", !.outcome = o, !.uuid = NextUuid]]
        /\ UNCHANGED <<SCRIPT_URL, ADMIN_EMAIL, localStorage, last, randCount, scope, trail,
                       page>>

\* the continuation of the adapter and of the handler up to its next await:
\* the mirror update; then the next file's save (line 91), or the load (lines
\* 105, 132, 403); if the adapter raises, the catch and the finally (lines
\* 113-122, 134-141, 405-412)
DeliverSave ==
    \E i \in 1..Len(pending) :
        /\ pending[i].pc = "saved"
        /\ \E p \in {pending[i]} :
           \E request \in {Request(p)} :
           \E result \in {Run(request, p.outcome, sheets, localStorage, p.uuid, NextRand)} :
           \E r \in {Parsed(result, TRUE, localStorage, MirrorKey(p))} :
              LET more == p.op = "handleSubmit" /\ Len(p.files) > 1
              IN  /\ localStorage' = r.store
                  /\ randCount' = IF p.op = "handleSubmit" /\ ~r.raised
                                  THEN randCount + 1 ELSE randCount
                  /\ page' = [page EXCEPT
                                 !.toast = IF r.raised THEN ErrorToast(p) ELSE @,
                                 !.uploading = IF r.raised /\ p.op = "handleSubmit"
                                               THEN FALSE ELSE @,
                                 !.loading = IF r.raised \/ more THEN @ ELSE TRUE]
                  /\ pending' = [pending EXCEPT ![i] =
                                    IF r.raised THEN Ended(p, TRUE)
                                    ELSE IF more
                                    THEN [p EXCEPT !.pc = "saving", !.files = Tail(@),
                                                   !.outcome = "", !.uuid = JUndef]
                                    ELSE BeginLoad(p)]
                  /\ UNCHANGED <<SCRIPT_URL, ADMIN_EMAIL, sheets, last, uuidCount, scope,
                                 trail>>

\* the handler resumes after its load: lines 106-112 and 119-122, 133, 404
EndHandler ==
    \E i \in 1..Len(pending) :
        LET p == pending[i]
        IN  /\ p.pc = "after"
            /\ page' = IF p.op = "handleSubmit"
                       THEN [page EXCEPT !.open = FALSE, !.form = BlankForm,
                                         !.selectedFiles = <<>>,
                                         !.toast = "study guide(s) added successfully!",
                                         !.uploading = FALSE]
                       ELSE [page EXCEPT !.toast = IF p.op = "handleDelete"
                                                   THEN "Study guide removed"
                                                   ELSE "Vote recorded!"]
            /\ pending' = [pending EXCEPT ![i] = Ended(p, FALSE)]
            /\ UNCHANGED <<SCRIPT_URL, ADMIN_EMAIL, sheets, localStorage, last, uuidCount,
                           randCount, scope, trail>>

\* the StudyGuides page in front of an empty spreadsheet, the Vote page in
\* front of one option suggested earlier; the mirror the page reads holds
\* what the adapters wrote there, or text that is not JSON
InitPages ==
    /\ SCRIPT_URL \in {"", "https://script.google.com/macros/s/x/exec"}
    /\ scope \in {"guides", "votes"}
    /\ ADMIN_EMAIL = ""
    /\ \/ /\ scope = "guides"
          /\ sheets = EmptySheets
          /\ localStorage \in {EmptyStorage,
                               [EmptyStorage EXCEPT ![STORAGE_KEYS.GUIDES] = Garbled]}
          /\ uuidCount = 0
          /\ randCount = 0
          /\ page = PageOf("StudyGuides")
       \/ /\ scope = "votes"
          /\ \E option \in OneOf(OptionInputs) :
                LET r == saveVotingOption(option, IF SCRIPT_URL = "" THEN "unset" ELSE "ok",
                                          EmptySheets, EmptyStorage, JId("uuid", 1),
                                          JId("rand", 1))
                IN  /\ sheets = r.sheets
                    /\ localStorage \in
                          {r.store,
                           [r.store EXCEPT ![STORAGE_KEYS.GENRE_VOTES] = Garbled],
                           [r.store EXCEPT ![STORAGE_KEYS.VOTES] = Garbled]}
          /\ uuidCount = IF SCRIPT_URL = "" THEN 0 ELSE 1
          /\ randCount = 1
          /\ page = PageOf("Vote")
    /\ last = NoCall
    /\ trail = <<>>
    /\ pending = <<>>

NextPages ==
    \/ Mount
    \/ ServeLoad
    \/ DeliverLoad
    \/ SettleLoad
    \/ SetOpen
    \/ SetFormData
    \/ handleFileChange
    \/ removeFile
    \/ handleSubmit
    \/ handleListed
    \/ ServeSave
    \/ DeliverSave
    \/ EndHandler

\* the steps of the program, as opposed to those of the user: the effect of
\* the mount, a request ending (served or failed), a continuation that is ready
ProgramStep ==
    \/ Mount
    \/ ServeLoad
    \/ DeliverLoad
    \/ SettleLoad
    \/ ServeSave
    \/ DeliverSave
    \/ EndHandler

\* every request ends and the event loop runs the continuations that are
\* ready: while the program has a step to take, it takes one
PagesFairness == WF_vars(ProgramStep)

SpecPages == InitPages /\ [][NextPages]_vars /\ PagesFairness

-----------------------------------------------------------------------------
(* Properties.                                                             *)

\* the rows the mirror holds under a key
Mirror(key) == IF localStorage[key] = Absent THEN <<>> ELSE localStorage[key].items

\* the last call was op and made exactly one gateway call, which ended as outcome
Called(op, outcome) ==
    /\ last.op = op
    /\ Len(last.calls) = 1
    /\ last.calls[1].outcome = outcome

CanonicalNames == {JStr(DEFAULT_GENRES[i]) : i \in 1..Len(DEFAULT_GENRES)}

\* the rows the last genre read took its counts from
GenreSource ==
    IF last.calls[1].kind = "list" THEN sheets.genre_votes
    ELSE Mirror(STORAGE_KEYS.GENRE_VOTES)

\* C1: every getGenreVotes result holds exactly the 8 canonical genre names, each
\* once, each with a non-negative integer count, whatever rows the remote returned
\* or the mirror holds; a genre with no row in the source has count 0.
C1_CanonicalNonNegative ==
    last.op = "getGenreVotes" =>
        /\ ~last.raised
        /\ Len(last.res) = 8
        /\ \A name \in CanonicalNames :
              Cardinality({i \in 1..Len(last.res) : last.res[i].name = name}) = 1
        /\ \A i \in 1..Len(last.res) :
              /\ last.res[i].name \in CanonicalNames
              /\ last.res[i].votes.t = "num"
              /\ last.res[i].votes.n >= 0
              /\ (\A k \in 1..Len(GenreSource) :
                     Or(GenreSource[k].name, GenreSource[k].id) # last.res[i].name)
                 => last.res[i].votes = JNum(0)


\* the count the rows hold for a genre name: of the last row of that name, else 0
CountIn(rows, name) ==
    LET hits == {k \in 1..Len(rows) : rows[k].name = name}
    IN  IF hits = {} THEN JNum(0)
        ELSE rows[CHOOSE k \in hits : \A j \in hits : j <= k].votes

\* the last call made one gateway call, which the script answered with a list
AnsweredList(op) ==
    last.op = op /\ Len(last.calls) = 1 /\ last.calls[1].answer = "list"

\* C2: when the remote answers a read with a list, the empty list included,
\* getBooks, getStudyGuides, getVotingOptions and getGenreVotes return what the
\* remote rows hold and nothing of the mirror.
C2_RemoteTakesPrecedence ==
    /\ AnsweredList("getBooks") =>
          /\ ~last.raised
          /\ Len(last.res) = Len(sheets.books)
          /\ \A i \in 1..Len(last.res) :
                /\ last.res[i].id = sheets.books[i].id
                /\ last.res[i].title = sheets.books[i].title
                /\ last.res[i].addedBy = sheets.books[i].added_by
    /\ AnsweredList("getStudyGuides") =>
          /\ ~last.raised
          /\ Len(last.res) = Len(sheets.study_guides)
          /\ \A i \in 1..Len(last.res) :
                /\ last.res[i].id = sheets.study_guides[i].id
                /\ last.res[i].title = sheets.study_guides[i].title
                /\ last.res[i].bookTitle = sheets.study_guides[i].book_title
    /\ AnsweredList("getVotingOptions") =>
          /\ ~last.raised
          /\ Len(last.res) = Len(sheets.voting_options)
          /\ \A i \in 1..Len(last.res) :
                /\ last.res[i].id = sheets.voting_options[i].id
                /\ last.res[i].bookTitle = sheets.voting_options[i].book_title
                /\ last.res[i].votes = sheets.voting_options[i].votes
    /\ AnsweredList("getGenreVotes") =>
          /\ ~last.raised
          /\ \A i \in 1..Len(last.res) :
                last.res[i].votes = CountIn(sheets.genre_votes, last.res[i].name)

\* an empty remote list in front of a mirror that holds entries
C2_Witness ==
    /\ AnsweredList("getVotingOptions")
    /\ sheets.voting_options = <<>>
    /\ Len(Mirror(STORAGE_KEYS.VOTES)) > 0
    /\ last.res = <<>>

\* the gateway call of the last call gave nothing: no endpoint, no transport,
\* or a status that is not 2xx
GaveNothing(op) ==
    /\ last.op = op
    /\ Len(last.calls) = 1
    /\ last.calls[1].outcome \in {"unset", "network", "http"}

\* C3: when the gateway returns nothing, getBooks, getStudyGuides and
\* getVotingOptions return the sequence the mirror stores for the collection,
\* entry for entry.
C3_FallbackIsMirror ==
    /\ GaveNothing("getBooks") =>
          ~last.raised /\ last.res = Mirror(STORAGE_KEYS.BOOKS)
    /\ GaveNothing("getStudyGuides") =>
          ~last.raised /\ last.res = Mirror(STORAGE_KEYS.GUIDES)
    /\ GaveNothing("getVotingOptions") =>
          ~last.raised /\ last.res = Mirror(STORAGE_KEYS.VOTES)

C3_Witness ==
    /\ GaveNothing("getBooks")
    /\ last.calls[1].outcome = "network"
    /\ Len(Mirror(STORAGE_KEYS.BOOKS)) = 2
    /\ last.res = Mirror(STORAGE_KEYS.BOOKS)

\* the script answered the one gateway call of the last call with an error body
AnsweredError(op) ==
    last.op = op /\ Len(last.calls) = 1 /\ last.calls[1].answer = "error"

\* the 8 names in order
NamesInOrder(res) ==
    /\ Len(res) = Len(DEFAULT_GENRES)
    /\ \A i \in 1..Len(res) : res[i].name = JStr(DEFAULT_GENRES[i])

\* C4, as claimed: a read answered with an error body does not raise, logs the
\* error and returns the empty sequence (for genres, the 8 names).
C4_ErrorGivesEmpty ==
    /\ \A op \in {"getBooks", "getStudyGuides", "getVotingOptions"} :
          AnsweredError(op) =>
             /\ ~last.raised
             /\ "Script Error" \in last.calls[1].logs
             /\ last.res = <<>>
    /\ AnsweredError("getGenreVotes") =>
          /\ ~last.raised
          /\ "Script Error" \in last.calls[1].logs
          /\ NamesInOrder(last.res)

\* C4, amended: a read answered with an error body does not raise, logs the
\* error and returns what the mirror stores (for genres, the 8 names with the
\* mirror's counts).
C4_ErrorGivesMirror ==
    /\ AnsweredError("getBooks") =>
          /\ ~last.raised
          /\ "Script Error" \in last.calls[1].logs
          /\ last.res = Mirror(STORAGE_KEYS.BOOKS)
    /\ AnsweredError("getStudyGuides") =>
          /\ ~last.raised
          /\ "Script Error" \in last.calls[1].logs
          /\ last.res = Mirror(STORAGE_KEYS.GUIDES)
    /\ AnsweredError("getVotingOptions") =>
          /\ ~last.raised
          /\ "Script Error" \in last.calls[1].logs
          /\ last.res = Mirror(STORAGE_KEYS.VOTES)
    /\ AnsweredError("getGenreVotes") =>
          /\ ~last.raised
          /\ "Script Error" \in last.calls[1].logs
          /\ NamesInOrder(last.res)
          /\ \A i \in 1..Len(last.res) :
                last.res[i].votes =
                    CountIn(Mirror(STORAGE_KEYS.GENRE_VOTES), last.res[i].name)

C4_Witness ==
    /\ AnsweredError("getBooks")
    /\ Len(Mirror(STORAGE_KEYS.BOOKS)) > 0
    /\ last.res = Mirror(STORAGE_KEYS.BOOKS)

\* the messages the script's error bodies carry in this model
RemoteMessages == {"ID not found", "Exception"}

MirrorAfter(key) == IF localStorage'[key] = Absent THEN <<>> ELSE localStorage'[key].items

\* the step is a completed call of op, whatever its gateway call came to
Completes(op) == last'.op = op /\ ~last'.raised /\ Len(last'.calls) = 1

\* C6: every saveBook, saveStudyGuide and saveVotingOption call, whatever its
\* remote call came to, adds exactly one entry to the mirror of its collection
\* and keeps the previous entries in their order: the new entry is the head for
\* books and guides, the tail for voting options; it carries a fresh identifier.
C6_CreateAddsOneEntry ==
    [][/\ Completes("saveBook") \/ last'.op # "saveBook"
       /\ Completes("saveStudyGuide") \/ last'.op # "saveStudyGuide"
       /\ Completes("saveVotingOption") \/ last'.op # "saveVotingOption"
       /\ last'.op = "saveBook" =>
             /\ Len(MirrorAfter(STORAGE_KEYS.BOOKS)) = Len(Mirror(STORAGE_KEYS.BOOKS)) + 1
             /\ Tail(MirrorAfter(STORAGE_KEYS.BOOKS)) = Mirror(STORAGE_KEYS.BOOKS)
             /\ Head(MirrorAfter(STORAGE_KEYS.BOOKS)).title = last'.arg.title
             /\ Head(MirrorAfter(STORAGE_KEYS.BOOKS)).id = JId("rand", randCount')
       /\ last'.op = "saveStudyGuide" =>
             /\ Len(MirrorAfter(STORAGE_KEYS.GUIDES)) = Len(Mirror(STORAGE_KEYS.GUIDES)) + 1
             /\ Tail(MirrorAfter(STORAGE_KEYS.GUIDES)) = Mirror(STORAGE_KEYS.GUIDES)
             /\ Head(MirrorAfter(STORAGE_KEYS.GUIDES)).title = last'.arg.title
             /\ Head(MirrorAfter(STORAGE_KEYS.GUIDES)).id = JId("rand", randCount')
       /\ last'.op = "saveVotingOption" =>
             LET old == Mirror(STORAGE_KEYS.VOTES)
                 new == MirrorAfter(STORAGE_KEYS.VOTES)
             IN  /\ Len(new) = Len(old) + 1
                 /\ SubSeq(new, 1, Len(old)) = old
                 /\ new[Len(new)].bookTitle = last'.arg.bookTitle
                 /\ new[Len(new)].id = JId("rand", randCount')
      ]_vars

\* a guide added to a mirror that held one, with the remote call refused
C6_Witness ==
    /\ last.op = "saveStudyGuide"
    /\ last.calls[1].outcome = "http"
    /\ Len(Mirror(STORAGE_KEYS.GUIDES)) = 2
    /\ Mirror(STORAGE_KEYS.GUIDES)[1].id = JId("rand", 2)
    /\ Mirror(STORAGE_KEYS.GUIDES)[2].id = JId("rand", 1)

\* the count a list of voting options gives for an identifier
CountOf(res, id) == res[CHOOSE i \in 1..Len(res) : res[i].id = id].votes

\* the read that closes the trail gives the option two votes more than the read
\* that opened it
TwoMore ==
    LET id == trail[2].arg
    IN  /\ \E i \in 1..Len(trail[4].res) : trail[4].res[i].id = id
        /\ CountOf(trail[4].res, id).t = "num"
        /\ CountOf(trail[4].res, id).n = CountOf(trail[1].res, id).n + 2

\* C7, as claimed: two voteForOption(id) calls for an option that
\* getVotingOptions returned always raise the count the next getVotingOptions
\* returns for it by exactly two.
C7_TwoVotesAlwaysAddTwo == Len(trail) = 4 => TwoMore

\* the gateway call gave the adapter nothing
FromMirror(e) == e.answer \in {"none", "error"}

\* C7, amended: the count goes up by exactly two when both reads are served by
\* the mirror, and when both reads are served by the remote and the remote
\* served both votes.
C7_TwoVotesAddTwoInOneStore ==
    /\ Len(trail) = 4
    /\ \/ FromMirror(trail[1]) /\ FromMirror(trail[4])
       \/ /\ trail[1].answer = "list" /\ trail[4].answer = "list"
          /\ trail[2].answer = "success" /\ trail[3].answer = "success"
    => TwoMore

\* read, two votes and read, all served by the remote
C7_Witness ==
    /\ Len(trail) = 4
    /\ \A k \in {1, 4} : trail[k].answer = "list"
    /\ \A k \in {2, 3} : trail[k].answer = "success"
    /\ CountOf(trail[1].res, trail[2].arg) = JNum(0)
    /\ CountOf(trail[4].res, trail[2].arg) = JNum(2)

\* C8: a voteForOption(id) call changes the mirror only so: when an entry of the
\* votes mirror has the id, its count goes up by one and nothing else changes;
\* when none has it, the mirror is left as it is.
C8_VoteTouchesOneEntry ==
    [][last'.op = "voteForOption" =>
          LET old == Mirror(STORAGE_KEYS.VOTES)
              new == MirrorAfter(STORAGE_KEYS.VOTES)
              hit == {i \in 1..Len(old) : old[i].id = last'.arg}
          IN  /\ ~last'.raised
              /\ \A key \in DOMAIN localStorage \ {STORAGE_KEYS.VOTES} :
                    localStorage'[key] = localStorage[key]
              /\ hit = {} => localStorage' = localStorage
              /\ hit # {} =>
                    /\ Cardinality(hit) = 1
                    /\ Len(new) = Len(old)
                    /\ \A i \in 1..Len(old) :
                          IF i \in hit
                          THEN new[i] = [old[i] EXCEPT !.votes = JNum(old[i].votes.n + 1)]
                          ELSE new[i] = old[i]
      ]_vars

\* the second of two entries voted for, the first untouched
C8_Witness ==
    /\ last.op = "voteForOption"
    /\ Len(Mirror(STORAGE_KEYS.VOTES)) = 2
    /\ Mirror(STORAGE_KEYS.VOTES)[2].id = last.arg
    /\ Mirror(STORAGE_KEYS.VOTES)[2].votes = JNum(1)
    /\ Mirror(STORAGE_KEYS.VOTES)[1].votes = JNum(0)

\* C9: deleteBook(id), deleteStudyGuide(id) and clearVotingOptions() update the
\* mirror whatever their remote call came to: after a delete the mirror holds no
\* entry with the id and every other entry in its order; after the clear the
\* votes mirror is the empty sequence.
C9_MirrorUpdatedWhateverTheRemote ==
    [][/\ last'.op = "deleteBook" =>
             /\ Completes("deleteBook")
             /\ \A i \in 1..Len(MirrorAfter(STORAGE_KEYS.BOOKS)) :
                   MirrorAfter(STORAGE_KEYS.BOOKS)[i].id # last'.arg
             /\ MirrorAfter(STORAGE_KEYS.BOOKS) =
                   SelectSeq(Mirror(STORAGE_KEYS.BOOKS), LAMBDA b : b.id # last'.arg)
       /\ last'.op = "deleteStudyGuide" =>
             /\ Completes("deleteStudyGuide")
             /\ \A i \in 1..Len(MirrorAfter(STORAGE_KEYS.GUIDES)) :
                   MirrorAfter(STORAGE_KEYS.GUIDES)[i].id # last'.arg
             /\ MirrorAfter(STORAGE_KEYS.GUIDES) =
                   SelectSeq(Mirror(STORAGE_KEYS.GUIDES), LAMBDA g : g.id # last'.arg)
       /\ last'.op = "clearVotingOptions" =>
             /\ Completes("clearVotingOptions")
             /\ localStorage'[STORAGE_KEYS.VOTES] # Absent
             /\ MirrorAfter(STORAGE_KEYS.VOTES) = <<>>
      ]_vars

\* the first of two mirror entries deleted while the remote could not be reached
C9_Witness ==
    /\ last.op = "deleteBook"
    /\ last.calls[1].outcome = "network"
    /\ last.arg = JId("rand", 2)
    /\ randCount = 2
    /\ Len(Mirror(STORAGE_KEYS.BOOKS)) = 1
    /\ Mirror(STORAGE_KEYS.BOOKS)[1].id = JId("rand", 1)

\* the 8 canonical entries at count 0
ZeroGenres ==
    [i \in 1..Len(DEFAULT_GENRES) |->
        [id |-> JStr(DEFAULT_GENRES[i]), name |-> JStr(DEFAULT_GENRES[i]), votes |-> JNum(0)]]

\* getUserVotedGenres returns the empty list to every user, however its call ends
NoVotedGenres ==
    \A profile \in Profiles, o \in GatewayOutcomes :
        LET r == getUserVotedGenres(o, sheets, setCurrentUser(localStorage, profile))
        IN  ~r.raised /\ r.ret = <<>>

\* C10, as claimed: after clearVotingOptions the votes mirror is empty; after
\* resetGenreVotes the genre mirror is the 8 canonical entries at 0 and the
\* history is empty, so that getUserVotedGenres returns the empty list for
\* every user.
C10_ResetEmptiesHistory ==
    /\ last.op = "clearVotingOptions" => Mirror(STORAGE_KEYS.VOTES) = <<>>
    /\ last.op = "resetGenreVotes" =>
          /\ Mirror(STORAGE_KEYS.GENRE_VOTES) = ZeroGenres
          /\ NoVotedGenres

\* C10, amended: the mirrors are left so whatever the remote call came to; the
\* history is emptied, and getUserVotedGenres returns the empty list for every
\* user, when the remote served the reset.
C10_ResetEmptiesHistoryWhenServed ==
    /\ last.op = "clearVotingOptions" => Mirror(STORAGE_KEYS.VOTES) = <<>>
    /\ last.op = "resetGenreVotes" =>
          /\ Mirror(STORAGE_KEYS.GENRE_VOTES) = ZeroGenres
          /\ last.calls[1].answer = "success" =>
                sheets.user_genre_history = <<>> /\ NoVotedGenres

\* a reset the remote served after genre votes had been recorded
C10_Witness ==
    /\ last.op = "resetGenreVotes"
    /\ last.calls[1].answer = "success"
    /\ sheets.genre_votes # <<>>
    /\ sheets.user_genre_history = <<>>
    /\ Mirror(STORAGE_KEYS.GENRE_VOTES) = ZeroGenres

\* every count of old is still there in new, under the same key, and not lower
NeverLess(old, new, Key(_)) ==
    \A i \in 1..Len(old) :
        \E j \in 1..Len(new) :
            /\ Key(new[j]) = Key(old[i])
            /\ new[j].votes.t = "num"
            /\ new[j].votes.n >= old[i].votes.n

IdOf(e) == e.id
NameOf(e) == e.name

RemoteCountsNeverLess ==
    /\ NeverLess(sheets.voting_options, sheets'.voting_options, IdOf)
    /\ NeverLess(sheets.genre_votes, sheets'.genre_votes, NameOf)

\* C11, as claimed: from one state to the next no vote count of a voting option
\* or of a genre goes down, in the spreadsheet or in the mirror, unless the step
\* is clearVotingOptions or resetGenreVotes.
C11_CountsNeverDecrease ==
    [][last'.op \notin {"clearVotingOptions", "resetGenreVotes"} =>
          /\ RemoteCountsNeverLess
          /\ NeverLess(Mirror(STORAGE_KEYS.VOTES), MirrorAfter(STORAGE_KEYS.VOTES), IdOf)
          /\ NeverLess(Mirror(STORAGE_KEYS.GENRE_VOTES),
                       MirrorAfter(STORAGE_KEYS.GENRE_VOTES), NameOf)
      ]_vars

\* C12: a voteForGenre call made while the session identity has an empty email
\* fails with the validation error, issues no remote request and leaves the
\* mirror, the genre votes included, as it was.
C12_NoEmailNoVote ==
    [][(last'.op = "voteForGenre" /\ ~Truthy(getCurrentUser(localStorage).email)) =>
          /\ last'.raised
          /\ last'.message = "Please set your profile email to vote"
          /\ last'.calls = <<>>
          /\ sheets' = sheets
          /\ localStorage' = localStorage
      ]_vars

\* the vote of a user stored in the old string format, refused after the genre
\* mirror had been written
C12_Witness ==
    /\ last.op = "voteForGenre"
    /\ last.raised
    /\ last.calls = <<>>
    /\ localStorage[STORAGE_KEYS.CURRENT_USER].fmt = "string"
    /\ Mirror(STORAGE_KEYS.GENRE_VOTES) = ZeroGenres

\* the history tab, and the genres it records for the session's email
History == sheets.user_genre_history
HistoryAfter == sheets'.user_genre_history
Recorded(email) == {History[k].genre_name : k \in {j \in 1..Len(History) : History[j].email = email}}

\* a genre vote the remote served appends one record (email, genre, time) to the
\* history tab and any other leaves the tab as it was; the records stay until a
\* resetGenreVotes; the vote writes nothing but the genre votes to the mirror
VoteRecorded ==
    /\ last'.op = "voteForGenre" =>
          /\ IF Len(last'.calls) > 0 /\ last'.calls[1].answer = "success"
             THEN HistoryAfter =
                     Append(History, [email |-> getCurrentUser(localStorage).email,
                                      genre_name |-> last'.arg, voted_at |-> JStr(Now)])
             ELSE HistoryAfter = History
          /\ \A key \in DOMAIN localStorage \ {STORAGE_KEYS.GENRE_VOTES} :
                localStorage'[key] = localStorage[key]
    /\ last'.op # "resetGenreVotes" =>
          /\ Len(HistoryAfter) >= Len(History)
          /\ SubSeq(HistoryAfter, 1, Len(History)) = History
    /\ DOMAIN localStorage' = DOMAIN EmptyStorage

\* the list the step returned holds every genre recorded for the session's email
ListsRecorded ==
    \A g \in Recorded(getCurrentUser(localStorage).email) :
        \E j \in 1..Len(last'.res) : last'.res[j] = g

\* C13, as claimed: every served genre vote of a user appends exactly one record
\* to the remote history, nothing of it is kept in the mirror, and every
\* getUserVotedGenres of that user lists the genre until the next
\* resetGenreVotes.
C13_VoteRecordedAndListed ==
    [][/\ VoteRecorded
       /\ last'.op = "getUserVotedGenres" => ~last'.raised /\ ListsRecorded
      ]_vars

\* C13, amended: as claimed, for every getUserVotedGenres that the remote serves.
C13_VoteRecordedAndListedWhenServed ==
    [][/\ VoteRecorded
       /\ last'.op = "getUserVotedGenres" =>
             /\ ~last'.raised
             /\ (Len(last'.calls) > 0 /\ last'.calls[1].answer = "list") => ListsRecorded
             /\ (Len(last'.calls) > 0 /\ last'.calls[1].answer # "list") => last'.res = <<>>
      ]_vars

\* two users have voted and the list of one of them is read
C13_Witness ==
    /\ last.op = "getUserVotedGenres"
    /\ Len(last.calls) = 1
    /\ last.calls[1].answer = "list"
    /\ Len(History) = 2
    /\ History[1].email # History[2].email
    /\ Len(last.res) = 1

\* a read, a saveVotingOption and the read after it, all served by the remote
SavedBetweenReads ==
    /\ Len(trail) = 3
    /\ trail[2].op = "saveVotingOption"
    /\ trail[1].answer = "list" /\ trail[2].answer = "success" /\ trail[3].answer = "list"

FlagOf(cell) ==
    CASE cell = JStr("TRUE") -> JBool(TRUE)
      [] cell = JBool(TRUE)  -> JBool(TRUE)
      [] OTHER               -> JBool(FALSE)

\* C15: a book or voting-option row read from the remote has its membership
\* flag true exactly when the cell is the string "TRUE" or the boolean true, and
\* false for "FALSE", for an absent value and for every other value.
C15_FlagTrueForTRUEOnly ==
    /\ AnsweredList("getBooks") =>
          /\ Len(last.res) = Len(sheets.books)
          /\ \A i \in 1..Len(last.res) :
                last.res[i].isMember = FlagOf(sheets.books[i].is_member)
    /\ AnsweredList("getVotingOptions") =>
          /\ Len(last.res) = Len(sheets.voting_options)
          /\ \A i \in 1..Len(last.res) :
                last.res[i].isMember = FlagOf(sheets.voting_options[i].is_member)

\* the string "TRUE" in the first row and the string "FALSE" in the second
C15_Witness ==
    /\ AnsweredList("getVotingOptions")
    /\ Len(last.res) = 2
    /\ sheets.voting_options[1].is_member = JStr("TRUE")
    /\ sheets.voting_options[2].is_member = JStr("FALSE")
    /\ last.res[1].isMember = JBool(TRUE)
    /\ last.res[2].isMember = JBool(FALSE)

\* the user record the browser holds
StoredUser == localStorage[STORAGE_KEYS.CURRENT_USER]

\* C16: getCurrentUser never fails: with no stored record (or an empty one) it
\* returns the name 'Book Club Member' and an empty email; with a stored plain
\* string, as JSON text or as raw text, that string as the name and an empty
\* email; otherwise the stored profile.
C16_CurrentUserNeverFails ==
    last.op = "getCurrentUser" =>
        /\ ~last.raised
        /\ Len(last.res) = 1
        /\ StoredUser.fmt \in {"absent", "empty"} =>
              last.res[1] = [name |-> JStr("Book Club Member"), email |-> JStr("")]
        /\ StoredUser.fmt \in {"string", "raw"} =>
              last.res[1] = [name |-> StoredUser.name, email |-> JStr("")]
        /\ StoredUser.fmt = "object" =>
              last.res[1] = [name |-> StoredUser.name, email |-> StoredUser.email]

\* the name read from the JSON text of a string
C16_Witness ==
    /\ last.op = "getCurrentUser"
    /\ StoredUser.fmt = "string"
    /\ last.res[1] = [name |-> JStr("Ann"), email |-> JStr("")]

\* C17: setCurrentUser(profile) overwrites the stored user record, issues no
\* remote request and changes no other key of the mirror; the getCurrentUser
\* that follows it returns the name and the email of the profile.
C17_SetThenGet ==
    [][/\ last'.op = "setCurrentUser" =>
             /\ ~last'.raised
             /\ last'.calls = <<>>
             /\ sheets' = sheets
             /\ localStorage'[STORAGE_KEYS.CURRENT_USER].fmt = "object"
             /\ \A key \in DOMAIN localStorage \ {STORAGE_KEYS.CURRENT_USER} :
                   localStorage'[key] = localStorage[key]
       /\ (Len(trail') = 2 /\ trail'[1].op = "setCurrentUser") =>
             /\ trail'[2].op = "getCurrentUser"
             /\ trail'[2].res = <<[name |-> trail'[1].arg.name,
                                   email |-> trail'[1].arg.email]>>
      ]_vars

\* a profile set over another and read back
C17_Witness ==
    /\ Len(trail) = 2
    /\ trail[1].op = "setCurrentUser"
    /\ trail[2].op = "getCurrentUser"
    /\ trail[2].res[1] = [name |-> JStr("Ann"), email |-> JStr("ANN@TORC.DEV")]

Users == sheets.users
UsersAfter == sheets'.users

\* C18: the users tab holds at most one row per email; a served saveProfile for
\* an email without a row appends one row with is_admin = false, one for an
\* email with a row changes the name and last_active of that row and nothing
\* else, the admin flag in particular; a saveProfile that is not served changes
\* nothing.
C18_UpsertKeyedByEmail ==
    [][/\ \A i, j \in 1..Len(UsersAfter) :
             UsersAfter[i].email = UsersAfter[j].email => i = j
       /\ last'.op = "syncProfile" =>
             LET profile == last'.arg
                 hit == {i \in 1..Len(Users) : Users[i].email = profile.email}
             IN  /\ ~last'.raised
                 /\ localStorage' = localStorage
                 /\ last'.calls[1].answer # "success" => UsersAfter = Users
                 /\ (last'.calls[1].answer = "success" /\ hit = {}) =>
                       /\ Len(UsersAfter) = Len(Users) + 1
                       /\ SubSeq(UsersAfter, 1, Len(Users)) = Users
                       /\ UsersAfter[Len(UsersAfter)].email = profile.email
                       /\ UsersAfter[Len(UsersAfter)].name = profile.name
                       /\ UsersAfter[Len(UsersAfter)].is_admin = JBool(FALSE)
                 /\ (last'.calls[1].answer = "success" /\ hit # {}) =>
                       /\ Len(UsersAfter) = Len(Users)
                       /\ \A i \in 1..Len(Users) :
                             /\ UsersAfter[i].email = Users[i].email
                             /\ UsersAfter[i].is_admin = Users[i].is_admin
                             /\ UsersAfter[i].name =
                                   IF i \in hit THEN profile.name ELSE Users[i].name
                             /\ i \notin hit => UsersAfter[i] = Users[i]
       /\ last'.op # "syncProfile" => UsersAfter = Users
      ]_vars

\* an admin's row renamed, the flag still set
C18_Witness ==
    /\ last.op = "syncProfile"
    /\ last.calls[1].answer = "success"
    /\ \E i \in 1..Len(Users) :
          /\ Users[i].email = JStr("ann@torc.dev")
          /\ Users[i].name = JStr("Annie")
          /\ Users[i].is_admin = JStr("TRUE")

\* the session email is that of a row of the users tab whose admin flag is set,
\* ignoring case
ListedAdmin(email) ==
    \E i \in 1..Len(Users) :
        /\ Users[i].is_admin \in {JBool(TRUE), JStr("TRUE")}
        /\ ToLowerCase(Users[i].email.s) = ToLowerCase(email.s)

\* C19: isAdmin returns true exactly when the session email is not empty and
\* equals, ignoring case, the master-admin address or the email of an entry of
\* the admin list it fetched; it returns false when the email is empty, and when
\* the list cannot be fetched and the master-admin address does not match.
C19_AdminIffMasterOrListed ==
    last.op = "isAdmin" =>
        LET email  == getCurrentUser(localStorage).email
            master == /\ ADMIN_EMAIL # ""
                      /\ ToLowerCase(email.s) = ToLowerCase(ADMIN_EMAIL)
            fetched == Len(last.calls) = 1 /\ last.calls[1].answer = "list"
        IN  /\ ~last.raised
            /\ last.res = <<JBool(/\ Truthy(email)
                                  /\ master \/ (fetched /\ ListedAdmin(email)))>>
            /\ (~Truthy(email) \/ master) => last.calls = <<>>

\* an address in capitals found in the fetched list under another spelling
C19_Witness ==
    /\ last.op = "isAdmin"
    /\ last.res = <<JBool(TRUE)>>
    /\ Len(last.calls) = 1
    /\ StoredUser.fmt = "object"
    /\ StoredUser.email = JStr("ANN@TORC.DEV")
    /\ \E i \in 1..Len(Users) : Users[i].email = JStr("Ann@Torc.dev")

\* the reads of the four collections answered from the mirror
ReadFromMirror ==
    /\ last'.op = "getBooks" => last'.res = Mirror(STORAGE_KEYS.BOOKS)
    /\ last'.op = "getStudyGuides" => last'.res = Mirror(STORAGE_KEYS.GUIDES)
    /\ last'.op = "getVotingOptions" => last'.res = Mirror(STORAGE_KEYS.VOTES)
    /\ last'.op = "getGenreVotes" =>
          /\ NamesInOrder(last'.res)
          /\ \A i \in 1..Len(last'.res) :
                last'.res[i].votes =
                    CountIn(Mirror(STORAGE_KEYS.GENRE_VOTES), last'.res[i].name)
    /\ last'.op = "getUserVotedGenres" => last'.res = <<>>

\* the writes still reach the mirror
WrittenToMirror ==
    /\ last'.op = "saveBook" =>
          Tail(MirrorAfter(STORAGE_KEYS.BOOKS)) = Mirror(STORAGE_KEYS.BOOKS)
    /\ last'.op = "saveStudyGuide" =>
          Tail(MirrorAfter(STORAGE_KEYS.GUIDES)) = Mirror(STORAGE_KEYS.GUIDES)
    /\ last'.op = "saveVotingOption" =>
          Len(MirrorAfter(STORAGE_KEYS.VOTES)) = Len(Mirror(STORAGE_KEYS.VOTES)) + 1
    /\ last'.op = "deleteBook" =>
          \A i \in 1..Len(MirrorAfter(STORAGE_KEYS.BOOKS)) :
              MirrorAfter(STORAGE_KEYS.BOOKS)[i].id # last'.arg
    /\ last'.op = "deleteStudyGuide" =>
          \A i \in 1..Len(MirrorAfter(STORAGE_KEYS.GUIDES)) :
              MirrorAfter(STORAGE_KEYS.GUIDES)[i].id # last'.arg
    /\ last'.op = "voteForOption" =>
          \A i \in 1..Len(Mirror(STORAGE_KEYS.VOTES)) :
              Mirror(STORAGE_KEYS.VOTES)[i].id = last'.arg =>
                  MirrorAfter(STORAGE_KEYS.VOTES)[i].votes.n =
                      Mirror(STORAGE_KEYS.VOTES)[i].votes.n + 1
    /\ last'.op = "clearVotingOptions" =>
          localStorage'[STORAGE_KEYS.VOTES] = [fmt |-> "array", items |-> <<>>]
    /\ last'.op = "resetGenreVotes" => MirrorAfter(STORAGE_KEYS.GENRE_VOTES) = ZeroGenres
    /\ (last'.op = "voteForGenre" /\ ~last'.raised) =>
          \E i \in 1..Len(MirrorAfter(STORAGE_KEYS.GENRE_VOTES)) :
              /\ MirrorAfter(STORAGE_KEYS.GENRE_VOTES)[i].name = last'.arg
              /\ MirrorAfter(STORAGE_KEYS.GENRE_VOTES)[i].votes.n =
                    IF last'.arg \in CanonicalNames
                    THEN CountIn(Mirror(STORAGE_KEYS.GENRE_VOTES), last'.arg).n + 1
                    ELSE 1

WritePath ==
    {"saveBook", "saveStudyGuide", "saveVotingOption", "voteForOption", "deleteBook",
     "deleteStudyGuide", "clearVotingOptions", "resetGenreVotes", "syncProfile"}

\* C21: saveBook, saveStudyGuide, saveVotingOption, voteForOption, deleteBook,
\* deleteStudyGuide, clearVotingOptions, resetGenreVotes and syncProfile complete
\* without raising whatever their gateway call came to: endpoint unset, transport
\* failure, non-2xx status, error body.
C21_WritesNeverRaise ==
    last.op \in WritePath =>
        /\ ~last.raised
        /\ Len(last.calls) = 1
        /\ ~last.calls[1].threw
        /\ last.calls[1].outcome \in {"unset", "network", "http", "exception", "ok"}
        /\ last.calls[1].answer \in {"none", "error"} => last.calls[1].kind = "null"

\* a profile sync that the script answered with an error body
C21_Witness ==
    /\ last.op = "syncProfile"
    /\ last.calls[1].answer = "error"
    /\ ~last.raised

\* C22, as claimed: a voteForGenre whose voteGenre request is answered with an
\* error body raises a failure that carries the remote message and leaves the
\* mirror as it was.
C22_ErrorBodyStopsVote ==
    [][(/\ last'.op = "voteForGenre"
        /\ Len(last'.calls) >= 1
        /\ last'.calls[1].answer = "error") =>
          /\ last'.raised
          /\ last'.message = last'.calls[1].message
          /\ localStorage' = localStorage
      ]_vars

\* C23: in the spreadsheet, a served vote for an id that a voting_options row has
\* adds exactly 1 to the votes of that row and changes nothing else; a served
\* vote, deleteBook or deleteGuide for an id that no row has is answered with
\* the error 'ID not found' and changes nothing; a served delete for an id that a
\* row has removes exactly that row.
C23_RemoteVoteAndDelete ==
    [][/\ (last'.op = "voteForOption" /\ last'.calls[1].outcome = "ok") =>
             LET old == sheets.voting_options
                 new == sheets'.voting_options
                 hit == {i \in 1..Len(old) : old[i].id = last'.arg}
             IN  /\ \A t \in DOMAIN sheets \ {"voting_options"} : sheets'[t] = sheets[t]
                 /\ hit = {} =>
                       /\ last'.calls[1].answer = "error"
                       /\ last'.calls[1].message = "ID not found"
                       /\ new = old
                 /\ hit # {} =>
                       /\ last'.calls[1].answer = "success"
                       /\ Cardinality(hit) = 1
                       /\ Len(new) = Len(old)
                       /\ \A i \in 1..Len(old) :
                             IF i \in hit
                             THEN new[i] = [old[i] EXCEPT !.votes = JNum(old[i].votes.n + 1)]
                             ELSE new[i] = old[i]
       /\ \A d \in {<<"deleteBook", "books">>, <<"deleteStudyGuide", "study_guides">>} :
             (last'.op = d[1] /\ last'.calls[1].outcome = "ok") =>
                LET old == sheets[d[2]]
                    new == sheets'[d[2]]
                    hit == {i \in 1..Len(old) : old[i].id = last'.arg}
                IN  /\ \A t \in DOMAIN sheets \ {d[2]} : sheets'[t] = sheets[t]
                    /\ hit = {} =>
                          /\ last'.calls[1].answer = "error"
                          /\ last'.calls[1].message = "ID not found"
                          /\ new = old
                    /\ hit # {} =>
                          /\ last'.calls[1].answer = "success"
                          /\ Cardinality(hit) = 1
                          /\ Len(new) = Len(old) - 1
                          /\ \A i \in hit : new = RemoveAt(old, i)
      ]_vars

\* the first of two guide rows deleted, the second kept
C23_Witness ==
    /\ last.op = "deleteStudyGuide"
    /\ last.calls[1].answer = "success"
    /\ last.arg = JId("uuid", 1)
    /\ Len(sheets.study_guides) = 1
    /\ sheets.study_guides[1].id = JId("uuid", 2)

\* the last call is a genre vote whose two requests the remote served
ServedGenreVote ==
    /\ last.op = "voteForGenre"
    /\ ~last.raised
    /\ Len(last.calls) = 2
    /\ last.calls[1].answer = "success"
    /\ last.calls[2].answer = "list"

\* C26, as claimed: after a voteForGenre(g) that the remote served, the count
\* the mirror stores for g equals the count the genre_votes tab holds for g.
C26_MirrorEqualsRemote ==
    ServedGenreVote =>
        CountIn(Mirror(STORAGE_KEYS.GENRE_VOTES), last.arg) =
            CountIn(sheets.genre_votes, last.arg)

ReadOps ==
    {"getBooks", "getStudyGuides", "getVotingOptions", "getGenreVotes",
     "getUserVotedGenres", "getCurrentUser", "isAdmin"}

\* the creates, the votes, the deletes, the resets and setCurrentUser
MirrorWriters ==
    {"saveBook", "saveStudyGuide", "saveVotingOption", "voteForOption", "voteForGenre",
     "deleteBook", "deleteStudyGuide", "clearVotingOptions", "resetGenreVotes",
     "setCurrentUser"}

\* C28: getBooks, getStudyGuides, getVotingOptions, getGenreVotes,
\* getUserVotedGenres, getCurrentUser and isAdmin leave the mirror exactly as it
\* was, whatever the remote returns; a step that changes the mirror is a create,
\* a vote, a delete, a reset or a setCurrentUser.
C28_ReadsLeaveMirror ==
    [][/\ last'.op \in ReadOps => localStorage' = localStorage
       /\ localStorage' # localStorage => last'.op \in MirrorWriters
      ]_vars

\* a read served by the remote while the mirror holds another list, and still
\* holds it afterwards
C28_Witness ==
    /\ AnsweredList("getVotingOptions")
    /\ Len(last.res) = 1
    /\ Len(sheets.voting_options) = 1
    /\ Len(Mirror(STORAGE_KEYS.VOTES)) = 2

Tally == sheets.genre_votes
TallyAfter == sheets'.genre_votes

\* the served voteGenre actions for a name since the last served reset: each
\* left one record in the history tab, which the reset empties
VotesSinceReset(hist, name) ==
    Cardinality({k \in 1..Len(hist) : hist[k].genre_name = name})

\* C29: the genre_votes tab, empty at first, has at most one row per genre name,
\* and the votes of a row are the number of served voteGenre actions for its
\* name since the last served resetGenreVotes: a served voteGenre adds 1 to the
\* row of the name, or appends the row with 1; a served reset sets every row to
\* 0 and keeps the rows; nothing else changes the tab.
C29_OneRowPerGenreCounted ==
    [][/\ \A i, j \in 1..Len(TallyAfter) :
             TallyAfter[i].name = TallyAfter[j].name => i = j
       /\ \A i \in 1..Len(TallyAfter) :
             TallyAfter[i].votes = JNum(VotesSinceReset(HistoryAfter, TallyAfter[i].name))
       /\ \A k \in 1..Len(HistoryAfter) :
             \E i \in 1..Len(TallyAfter) : TallyAfter[i].name = HistoryAfter[k].genre_name
       /\ IF last'.op = "voteForGenre" /\ Len(last'.calls) > 0
                                       /\ last'.calls[1].answer = "success"
          THEN LET hit == {i \in 1..Len(Tally) : Tally[i].name = last'.arg}
               IN  IF hit = {}
                   THEN TallyAfter = Append(Tally, [id |-> last'.arg, name |-> last'.arg,
                                                    votes |-> JNum(1)])
                   ELSE /\ Len(TallyAfter) = Len(Tally)
                        /\ \A i \in 1..Len(Tally) :
                              TallyAfter[i] =
                                 IF i \in hit
                                 THEN [Tally[i] EXCEPT !.votes = JNum(Tally[i].votes.n + 1)]
                                 ELSE Tally[i]
          ELSE IF last'.op = "resetGenreVotes" /\ last'.calls[1].answer = "success"
          THEN /\ Len(TallyAfter) = Len(Tally)
               /\ \A i \in 1..Len(Tally) :
                     TallyAfter[i] = [Tally[i] EXCEPT !.votes = JNum(0)]
          ELSE TallyAfter = Tally
      ]_vars

\* two genres voted for, a reset, and one of them voted for again
C29_Witness ==
    /\ last.op = "voteForGenre"
    /\ Len(Tally) = 2
    /\ Tally[1].votes = JNum(1)
    /\ Tally[2].votes = JNum(0)
    /\ Len(History) = 1

\* a book or guide was created, listed and deleted with the remote serving, and
\* a list was made afterwards
ListedAfterDelete ==
    Len(trail) = 4 /\ trail[1].op \in {"saveBook", "saveStudyGuide"}

\* C27, as claimed: a book or study guide created with the remote reachable and
\* then deleted, the remote serving, under the identifier the list gave it is in
\* the result of no later list, the lists served by the mirror included.
C27_DeletedNeverListed ==
    ListedAfterDelete =>
        \A i \in 1..Len(trail[4].res) :
            trail[4].res[i].id \notin {trail[1].res[1], trail[1].res[2]}

\* every call that was started has completed
AllDone == Len(pending) > 0 /\ InFlight = {}

\* the calls of an adapter that were started
Started(op) == {i \in 1..Len(pending) : pending[i].op = op}

\* the identifiers of the entries of a list
Ids(entries) == {entries[k].id : k \in 1..Len(entries)}

\* the mirror of a collection holds one entry for each create call, under
\* identifiers of its own, but for the identifiers that were deleted
CreatedAndKept(key, create, delete) ==
    /\ Cardinality(Ids(Mirror(key))) = Len(Mirror(key))
    /\ randCount = Cardinality(Started(create))
    /\ Ids(Mirror(key)) = {JId("rand", k) : k \in 1..randCount}
                             \ {pending[i].arg : i \in Started(delete)}

\* C24, as claimed: once two voteForGenre calls for one genre, the second
\* started while the first was in flight, have both completed, the mirror's
\* count of the genre is 2 higher than before (it was 0), however their steps
\* interleave, the endpoint being set or not.
C24_BothGenreVotesCounted ==
    (/\ scope = "genres"
     /\ Len(pending) = 2
     /\ AllDone
     /\ pending[2].overlap
     /\ pending[1].arg = pending[2].arg
     /\ ~pending[1].raised /\ ~pending[2].raised) =>
        CountIn(Mirror(STORAGE_KEYS.GENRE_VOTES), pending[1].arg) = JNum(2)

\* C25: saveBook, saveStudyGuide, saveVotingOption, voteForOption, deleteBook and
\* deleteStudyGuide read and write the mirror in one continuation, so no update
\* is lost however the calls interleave: once n saveVotingOption calls and m
\* voteForOption calls for a mirror identifier have all completed, the votes
\* mirror has n entries more and the identifier's count is m higher; the books
\* and guides mirrors hold one entry per create but for the deleted identifiers.
C25_NoLostMirrorUpdate ==
    AllDone =>
        /\ scope = "votes" =>
              LET m == Mirror(STORAGE_KEYS.VOTES)
              IN  /\ Len(m) = 1 + Cardinality(Started("saveVotingOption"))
                  /\ Cardinality(Ids(m)) = Len(m)
                  /\ \A k \in 1..Len(m) :
                        m[k].votes =
                           JNum(Cardinality({i \in Started("voteForOption") :
                                                pending[i].arg = m[k].id}))
        /\ scope = "books" => CreatedAndKept(STORAGE_KEYS.BOOKS, "saveBook", "deleteBook")
        /\ scope = "guides" =>
              CreatedAndKept(STORAGE_KEYS.GUIDES, "saveStudyGuide", "deleteStudyGuide")

\* a suggestion and two votes for the option the mirror already held, each
\* started while another call was in flight
C25_Witness ==
    /\ scope = "votes"
    /\ AllDone
    /\ Len(pending) = 3
    /\ pending[2].overlap /\ pending[3].overlap
    /\ Cardinality(Started("voteForOption")) = 2
    /\ Len(Mirror(STORAGE_KEYS.VOTES)) = 2
    /\ Mirror(STORAGE_KEYS.VOTES)[1].votes = JNum(2)


\* the handlers whose load is in flight
Loading(calls) == {i \in 1..Len(calls) : calls[i].pc = "loading"}

\* the submits of the study-guide form that have not ended
Submitting(calls) ==
    {i \in 1..Len(calls) : calls[i].op = "handleSubmit" /\ calls[i].pc # "done"}

\* C30: on the StudyGuides and Vote pages every load sets loading true when it
\* starts and false when its reads have settled, returned or raised, and every
\* load that starts gets there; the submit of the study-guide form sets
\* uploading true only with at least one file selected and sets it false when
\* it ends, its saves having succeeded or raised, and every submit ends; a
\* submit with no file selected saves nothing.
C30_FlagsFollowLoadsAndSubmits ==
    /\ [][/\ Loading(pending') \ Loading(pending) # {} => page'.loading
          /\ Loading(pending) \ Loading(pending') # {} => ~page'.loading
          /\ page'.uploading /\ ~page.uploading =>
                /\ page.selectedFiles # <<>>
                /\ Submitting(pending') \ Submitting(pending) # {}
          /\ Submitting(pending') \ Submitting(pending) # {} =>
                page'.uploading /\ page.selectedFiles # <<>>
          /\ Submitting(pending) \ Submitting(pending') # {} => ~page'.uploading
          /\ handleSubmit /\ page.selectedFiles = <<>> =>
                /\ UNCHANGED <<sheets, localStorage, pending>>
                /\ page'.uploading = page.uploading
                /\ page'.loading = page.loading
       ]_vars
    /\ [](/\ Loading(pending) = {} /\ pending # <<>> => ~page.loading
          /\ page.uploading <=> Submitting(pending) # {})
    /\ []<>(Loading(pending) = {} /\ Submitting(pending) = {})

\* on the StudyGuides page the load of the mount raised and a submit of one
\* file raised after its save request was served; both flags are false again
C30_Witness ==
    /\ page.name = "StudyGuides"
    /\ Len(pending) = 2
    /\ InFlight = {}
    /\ pending[1].op = "loadGuides" /\ pending[1].raised
    /\ pending[2].op = "handleSubmit" /\ pending[2].raised
    /\ Len(sheets.study_guides) = 1
    /\ page.toast = "Error uploading files"
    /\ ~page.loading /\ ~page.uploading

====
